---- MODULE Spec2Model ----
(***************************************************************************)
(* Claim-detection processing pipeline of email-claim-detector:            *)
(* ClaimDetectionOrchestrator.processEmails with its collaborators         *)
(* (ExchangeService, OpenAIService / LocalLLMService, Database).           *)
(* Every `await` of the source is a suspension point and therefore the     *)
(* boundary between two actions of an invocation.                          *)
(***************************************************************************)
EXTENDS Integers, Sequences, FiniteSets, Bags, TLC

(***************************************************************************)
(* Bounds of the model.                                                    *)
(***************************************************************************)
NumInv == 2          \* processEmails invocations made on the orchestrators
MaxMsgs == 3         \* messages held by the Mail Source
MaxFaults == 1       \* collaborator failures injected in one behaviour
MaxRawLen == 4       \* tokens of a raw completion text
MaxAddrLen == 3      \* characters of a sender address

Inv == 1..NumInv
World == 1..NumInv   \* orchestrator instances, each with its own Store
MsgIds == 1..MaxMsgs

(***************************************************************************)
(* Program constants.                                                      *)
(***************************************************************************)
DefaultConcurrentLimit == 3
maxEmailsPerRun == 50
TicksPerDay == 4     \* clock ticks in one UTC day (model time scale)
SPACE == 32          \* ' ' in 'YYYY-MM-DD HH:MM:SS'
LETTER_T == 84       \* 'T' in 'YYYY-MM-DDTHH:MM:SS.sssZ'

NoTime == -1         \* null Date
Null == <<>>         \* null / undefined text

(***************************************************************************)
(* Text helpers: a text is a sequence of one-character strings.            *)
(***************************************************************************)
ToLowerChar(c) ==
  CASE c = "A" -> "a" [] c = "B" -> "b" [] c = "E" -> "e" [] c = "M" -> "m"
    [] c = "N" -> "n" [] c = "U" -> "u" [] OTHER -> c

ToLowerCase(s) == [k \in 1..Len(s) |-> ToLowerChar(s[k])]

IsBlankChar(c) == c = " "

\* String.prototype.trim() === ''
TrimIsEmpty(s) == \A k \in 1..Len(s) : IsBlankChar(s[k])

\* positions of '@' in an address
AtPositions(s) == {k \in 1..Len(s) : s[k] = "@"}

MinOf(S) == CHOOSE x \in S : \A y \in S : x <= y
MaxOf(S) == CHOOSE x \in S : \A y \in S : x >= y

\* senderEmail.split('@')[1]: the part between the first and the second '@'
\* (undefined, here Null, when the address has no '@')
SplitAt1(s) ==
  IF AtPositions(s) = {} THEN Null
  ELSE LET p == MinOf(AtPositions(s))
           later == {k \in AtPositions(s) : k > p}
           q == IF later = {} THEN Len(s) + 1 ELSE MinOf(later)
       IN SubSeq(s, p + 1, q - 1)

SeqIncludes(list, x) == \E k \in 1..Len(list) : list[k] = x

\* case-insensitive search of a literal inside a text (RegExp(lit, 'i').test)
ContainsCI(text, lit) ==
  \E k \in 0..(Len(text) - Len(lit)) :
     ToLowerCase(SubSeq(text, k + 1, k + Len(lit))) = ToLowerCase(lit)

(***************************************************************************)
(* Exclusion Filter.                                                       *)
(* A subject pattern is a record: valid = FALSE stands for a pattern that  *)
(* new RegExp rejects, lit is the literal a valid pattern searches for.    *)
(***************************************************************************)
ExclusionConfig ==
  [emails |-> << <<"n","@","e">> >>,
   domains |-> << <<"m">> >>,
   subjectPatterns |-> << [valid |-> FALSE, lit |-> <<"(">>],
                          [valid |-> TRUE, lit |-> <<"N","e","w","s">>] >>]

EmptyExclusion == [emails |-> <<>>, domains |-> <<>>, subjectPatterns |-> <<>>]

PatternMatches(pattern, subject) ==
  pattern.valid /\ ContainsCI(subject, pattern.lit)

\* variant: the loop over the patterns ends at the first malformed one
shouldExcludeUntilMalformed(list, senderEmail, subject) ==
  IF ~list.loaded THEN FALSE
  ELSE LET cfg == list.excludeFromClaimDetection
           domain == ToLowerCase(SplitAt1(senderEmail))
       IN \/ SeqIncludes(cfg.emails, ToLowerCase(senderEmail))
          \/ (domain # Null /\ SeqIncludes(cfg.domains, domain))
          \/ \E k \in 1..Len(cfg.subjectPatterns) :
                /\ \A j \in 1..k : cfg.subjectPatterns[j].valid
                /\ PatternMatches(cfg.subjectPatterns[k], subject)

\* loaded = FALSE: exclusionList is null or lacks excludeFromClaimDetection
shouldExcludeFromClaimDetection(list, senderEmail, subject) ==
  IF ~list.loaded THEN FALSE
  ELSE LET cfg == list.excludeFromClaimDetection
           domain == ToLowerCase(SplitAt1(senderEmail))
       IN \/ SeqIncludes(cfg.emails, ToLowerCase(senderEmail))
          \/ (domain # Null /\ SeqIncludes(cfg.domains, domain))
          \/ \E k \in 1..Len(cfg.subjectPatterns) :
                PatternMatches(cfg.subjectPatterns[k], subject)

LoadedExclusion == [loaded |-> TRUE, excludeFromClaimDetection |-> ExclusionConfig]

\* what loadExclusionList finds at src/config/exclusionList.json
MissingFile == [state |-> "missing", content |-> EmptyExclusion]
UnreadableFile == [state |-> "unreadable", content |-> EmptyExclusion]
InvalidJsonFile == [state |-> "invalid json", content |-> EmptyExclusion]
ValidFile(cfg) == [state |-> "valid", content |-> cfg]

\* this.exclusionList = null, as the constructor leaves it
NullExclusion == [loaded |-> FALSE, excludeFromClaimDetection |-> EmptyExclusion]

\* variant: a failed load leaves a filter that matches every subject
loadExclusionListFailClosed(file) ==
  IF file.state = "valid"
  THEN [loaded |-> TRUE, excludeFromClaimDetection |-> file.content]
  ELSE [loaded |-> TRUE, excludeFromClaimDetection |->
          [EmptyExclusion EXCEPT
             !.subjectPatterns = << [valid |-> TRUE, lit |-> <<>>] >>]]

\* the exclusionList that loadExclusionList leaves; it does not throw
loadExclusionList(file) ==
  IF file.state = "valid"
  THEN [loaded |-> TRUE, excludeFromClaimDetection |-> file.content]
  ELSE [loaded |-> TRUE, excludeFromClaimDetection |-> EmptyExclusion]

(***************************************************************************)
(* Mail Source content: the newest message has the highest id.             *)
(***************************************************************************)
PlainMail(m) ==
  [id |-> m, senderEmail |-> <<"u","@","c">>, subject |-> <<"h","i">>,
   body |-> <<"x">>, receivedDateTime |-> m, mailbox |-> "default"]

PromoMail(m) ==
  [id |-> m, senderEmail |-> <<"B","@","M">>, subject |-> <<"h","i">>,
   body |-> <<"x">>, receivedDateTime |-> m, mailbox |-> "default"]

BlankMail(m) ==
  [id |-> m, senderEmail |-> <<"u","@","c">>, subject |-> <<>>,
   body |-> <<" ">>, receivedDateTime |-> m, mailbox |-> "default"]

\* contents of the Mail Source used by the specifications
AllPlain == [m \in MsgIds |-> PlainMail(m)]
Mixed ==
  [m \in MsgIds |-> CASE m % 3 = 1 -> PromoMail(m)
                     [] m % 3 = 0 -> BlankMail(m)
                     [] OTHER -> PlainMail(m)]

\* ExchangeService.extractTextFromEmail: subject + ' ' + body, trimmed
TrimText(s) ==
  IF TrimIsEmpty(s) THEN <<>>
  ELSE LET nb == {k \in 1..Len(s) : ~IsBlankChar(s[k])}
       IN SubSeq(s, MinOf(nb), MaxOf(nb))

extractTextFromEmail(email) == TrimText(email.subject \o <<" ">> \o email.body)


(***************************************************************************)
(* Timestamps.  A Date is a tick count.  Written by SQLite's               *)
(* CURRENT_TIMESTAMP it is the text 'YYYY-MM-DD HH:MM:SS', written by      *)
(* Date.toISOString() it is 'YYYY-MM-DDTHH:MM:SS.sssZ'; a text is modelled *)
(* as <<date, separator character code, time of day>> and two texts are    *)
(* compared the way SQLite compares TEXT values (byte by byte).            *)
(***************************************************************************)
DayOf(t) == t \div TicksPerDay
TimeOfDay(t) == t % TicksPerDay

SqlCurrentTimestamp(t) == <<DayOf(t), SPACE, TimeOfDay(t)>>
toISOString(t) == <<DayOf(t), LETTER_T, TimeOfDay(t)>>

TextGE(a, b) ==
  \/ a[1] > b[1]
  \/ a[1] = b[1] /\ a[2] > b[2]
  \/ a[1] = b[1] /\ a[2] = b[2] /\ a[3] >= b[3]

(***************************************************************************)
(* Response Normalizer (BaseAIService.parseAnalysisResult).                *)
(* A raw completion is NullRaw or a text of tokens "{", "}", " ", "x"      *)
(* (any other character) and "J" (a well-formed JSON member list whose     *)
(* parsed members are given by the field members); a caller may also pass  *)
(* a value that is not a text: a number, a boolean or an object.           *)
(***************************************************************************)
NullRaw == [type |-> "null"]
TextRaw(toks, members) == [type |-> "string", toks |-> toks, members |-> members]
NumberRaw(n) == [type |-> "number", v |-> n]
BooleanRaw(b) == [type |-> "boolean", v |-> b]
ObjectRaw == [type |-> "object"]

\* the truthiness of the argument: !result is its negation
RawTruthy(raw) ==
  CASE raw.type = "null" -> FALSE
    [] raw.type = "string" -> raw.toks # <<>>
    [] raw.type = "number" -> raw.v # 0
    [] raw.type = "boolean" -> raw.v
    [] OTHER -> TRUE

\* an exception that leaves the function
Thrown(message) == [threw |-> TRUE, message |-> message]
Threw(x) == "threw" \in DOMAIN x

Undef == [t |-> "undef"]
JBool(b) == [t |-> "bool", v |-> b]
JNum(n) == [t |-> "num", v |-> n]
JStr(s) == [t |-> "str", v |-> s]
JArr(a) == [t |-> "arr", v |-> a]
JNull == [t |-> "null"]
JObj == [t |-> "obj"]

NoMembers ==
  [isClaim |-> Undef, confidence |-> Undef, category |-> Undef,
   severity |-> Undef, reason |-> Undef, keywords |-> Undef, summary |-> Undef]

validCategories ==
  {"answer quality", "answer delay", "point less conversation",
   "communication", "other", "not_claim"}
validSeverities == {"low", "medium", "high"}

\* Boolean(x)
Truthy(x) ==
  CASE x.t = "bool" -> x.v
    [] x.t = "num" -> x.v # 0
    [] x.t = "str" -> x.v # ""
    [] x.t = "arr" -> TRUE
    [] x.t = "obj" -> TRUE
    [] OTHER -> FALSE

\* parseInt(x) || 0 ; a text that does not start with an integer gives NaN
ParseIntText(s) ==
  CASE s = "85" -> 85 [] s = "150" -> 150 [] s = "-5" -> -5 [] s = "2.7" -> 2
    [] OTHER -> 0

\* variant: only numbers are taken
ParseIntNumbersOnly(x) == IF x.t = "num" THEN x.v ELSE 0

\* parseInt converts its argument to text first: an array gives the text
\* of its elements joined by commas
ParseIntOrZero(x) ==
  CASE x.t = "num" -> x.v
    [] x.t = "str" -> ParseIntText(x.v)
    [] x.t = "arr" -> IF x.v = <<>> THEN 0 ELSE ParseIntText(x.v[1])
    [] OTHER -> 0

\* variant: no upper limit
ClampLowOnly(n) == IF n < 0 THEN 0 ELSE n

\* Math.min(Math.max(n, 0), 100)
Clamp(n) == IF n < 0 THEN 0 ELSE IF n > 100 THEN 100 ELSE n

DefaultResult(reason, raw, parseError) ==
  [isClaim |-> FALSE, confidence |-> 0, category |-> "other",
   severity |-> "medium", reason |-> JStr(reason), keywords |-> <<>>,
   summary |-> JStr(""), rawResponse |-> raw, parseError |-> parseError]

BracePositions(toks, b) == {k \in 1..Len(toks) : toks[k] = b}

\* result.match(/\{[\s\S]*\}/): first "{" up to the last "}" after it
JsonMatch(toks) ==
  IF BracePositions(toks, "{") = {} THEN <<>>
  ELSE LET first == MinOf(BracePositions(toks, "{"))
           closes == {k \in BracePositions(toks, "}") : k > first}
       IN IF closes = {} THEN <<>> ELSE SubSeq(toks, first, MaxOf(closes))

\* JSON.parse accepts the span: one object with at most one member list
SpanParses(span) ==
  LET inner == SubSeq(span, 2, Len(span) - 1)
      solid == SelectSeq(inner, LAMBDA c : c # " ")
  IN solid = <<>> \/ solid = <<"J">>

\* x || '' : a truthy value is kept whatever its type
OrEmptyText(x) == IF Truthy(x) THEN x ELSE JStr("")

Coerce(parsed, raw) ==
  [isClaim |-> Truthy(parsed.isClaim),
   confidence |-> Clamp(ParseIntOrZero(parsed.confidence)),
   category |-> IF parsed.category.t = "str" /\ parsed.category.v \in validCategories
                THEN parsed.category.v ELSE "other",
   severity |-> IF parsed.severity.t = "str" /\ parsed.severity.v \in validSeverities
                THEN parsed.severity.v ELSE "medium",
   reason |-> OrEmptyText(parsed.reason),
   keywords |-> IF parsed.keywords.t = "arr" THEN parsed.keywords.v ELSE <<>>,
   summary |-> OrEmptyText(parsed.summary),
   rawResponse |-> raw]

parseAnalysisResult(raw) ==
  IF ~RawTruthy(raw)
  THEN DefaultResult("empty response", raw, "Empty or null response")
  ELSE IF raw.type # "string"
  THEN Thrown("result.trim is not a function")
  ELSE IF TrimIsEmpty(raw.toks)
  THEN DefaultResult("empty response", raw, "Empty or null response")
  ELSE LET span == JsonMatch(raw.toks)
       IN IF span = <<>>
          THEN DefaultResult("no JSON structure", raw,
                             "No JSON structure found in response")
          ELSE IF ~SpanParses(span)
          THEN DefaultResult("JSON parse error", raw, "JSON parse failed")
          ELSE Coerce(IF SelectSeq(span, LAMBDA c : c = "J") = <<>>
                      THEN NoMembers ELSE raw.members, raw)

(***************************************************************************)
(* Stubbed Completion Service outcomes: "fail" (the call rejects) or a     *)
(* raw completion text.                                                    *)
(***************************************************************************)
ClaimMembers ==
  [isClaim |-> JBool(TRUE), confidence |-> JNum(150), category |-> JStr("bogus"),
   severity |-> JStr("extreme"), reason |-> JStr("late"),
   keywords |-> JArr(<<"delay">>), summary |-> JStr("s")]

RawClaim == TextRaw(<<"x", "{", "J", "}", "x">>, ClaimMembers)
RawNoJson == TextRaw(<<"x">>, NoMembers)
\* a response such as {"isClaim": false, "reason": 42}
RawNumberReason ==
  TextRaw(<<"{", "J", "}">>, [NoMembers EXCEPT !.reason = JNum(42)])
StubFail == [type |-> "fail"]

StubOutcomes == {RawClaim, RawNoJson, StubFail}


(***************************************************************************)
(* State.                                                                  *)
(***************************************************************************)
VARIABLES
  now,              \* wall clock, in ticks
  mailbox,          \* Mail Source: ids of the messages it holds
  mail,             \* Mail Source: the message of each id
  stub,             \* Completion Service stub: outcome for each message
  faults,           \* collaborator failures injected so far
  server,           \* self-hosted backend: "down", "elsewhere", "loading", "ready"
  isRunning,        \* orchestrator.isRunning, per orchestrator
  concurrentLimit,  \* openaiService.concurrentLimit, per orchestrator
  exclusionList,    \* orchestrator.exclusionList, per orchestrator
  emails,           \* Store table emails, per orchestrator
  claims,           \* Store table claims, per orchestrator
  processing_log,   \* Store table processing_log, per orchestrator
  lastID,           \* last_insert_rowid of the Store connection
  inv,              \* the processEmails invocations: position and locals
  call              \* a direct call of one operation: argument and result

vars == <<now, mailbox, mail, stub, faults, server, isRunning, concurrentLimit,
          exclusionList, emails, claims, processing_log, lastID, inv, call>>

\* what no step of processEmails changes
env == <<mailbox, mail, stub, exclusionList, call>>

NoOptions ==
  [useLocalLLM |-> FALSE, concurrency |-> 0, days |-> 0, emailAddress |-> "",
   debug |-> FALSE, hours |-> 0, startDate |-> NoTime, endDate |-> NoTime]

NoRange == [present |-> FALSE, startDate |-> NoTime, endDate |-> NoTime]
NoResult == [none |-> TRUE]

IdleInvocation(w) ==
  [pc |-> "idle", world |-> w, options |-> NoOptions,
   startTime |-> NoTime, endTime |-> NoTime,
   emailsProcessed |-> 0, claimsDetected |-> 0, errors |-> <<>>,
   thrown |-> <<>>, dateRange |-> NoRange, lastProcessingTime |-> NoTime,
   emails |-> <<>>, k |-> 0, savedEmailId |-> 0,
   unprocessedEmails |-> <<>>, chunks |-> <<>>, chunkResults |-> <<>>,
   inflight |-> {}, processedCount |-> 0, analysisResults |-> <<>>,
   retries |-> 0,
   outcome |-> "none", retval |-> NoResult, error |-> <<>>,
   \* history of the invocation, not program state
   entered |-> FALSE, after |-> {}, during |-> {}, seenRecorded |-> {}, caught |-> {},
   detailCalls |-> {}, completionCalls |-> {}, cursorReads |-> 0,
   listingCalls |-> <<>>]

\* runs begin shortly before midnight UTC
InitClocks == {3 * TicksPerDay - 1}

NoCall == [fn |-> "none", arg |-> <<>>, done |-> FALSE, ret |-> NoResult]
Calling(fn, arg) == [fn |-> fn, arg |-> arg, done |-> FALSE, ret |-> NoResult]

InitOrchestrators(clocks, worldOf, boxes, mails, stubs, usedFaults, servers) ==
  /\ now \in clocks
  /\ mailbox \in boxes
  /\ mail \in mails
  /\ stub \in stubs
  /\ faults = usedFaults
  /\ server \in servers
  /\ isRunning = [w \in World |-> FALSE]
  /\ concurrentLimit = [w \in World |-> DefaultConcurrentLimit]
  /\ exclusionList = [w \in World |-> LoadedExclusion]
  /\ emails = [w \in World |-> <<>>]
  /\ claims = [w \in World |-> <<>>]
  /\ processing_log = [w \in World |-> <<>>]
  /\ lastID = [w \in World |-> 0]
  /\ inv = [i \in Inv |-> IdleInvocation(worldOf[i])]

InitWith(clocks, worldOf, boxes, mails, stubs, usedFaults, servers) ==
  /\ InitOrchestrators(clocks, worldOf, boxes, mails, stubs, usedFaults, servers)
  /\ call = NoCall

\* the orchestrators stay as constructed while an operation is called directly
InitCall(calls) ==
  /\ InitOrchestrators(InitClocks, [i \in Inv |-> 1], {MsgIds}, {AllPlain},
                       {[m \in MsgIds |-> RawNoJson]}, 0, {"down"})
  /\ call \in calls
orchestrators ==
  <<now, mailbox, mail, stub, faults, server, isRunning, concurrentLimit,
    exclusionList, emails, claims, processing_log, lastID, inv>>

\* the stub of a working Completion Service
DefaultStub == [m \in MsgIds |-> IF m % 2 = 0 THEN RawClaim ELSE RawNoJson]

\* outcomes a collaborator call may have: success, or an injected failure
Oks == IF faults < MaxFaults THEN {TRUE, FALSE} ELSE {TRUE}
Fault(ok) == faults' = IF ok THEN faults ELSE faults + 1

ErrorMessage(op, m) == <<op, m>>

(***************************************************************************)
(* Store (Database).                                                       *)
(***************************************************************************)
\* the UNIQUE index on emails.email_id
HasEmailId(tbl, emailId) == \E n \in 1..Len(tbl) : tbl[n].email_id = emailId

\* variant: the lookup never finds a row
isEmailProcessedNever(tbl, emailId) == FALSE

\* SELECT 1 FROM emails WHERE email_id = ?   resolve(!!row)
isEmailProcessed(tbl, emailId) == HasEmailId(tbl, emailId)

\* INSERT OR IGNORE INTO emails: email_id is UNIQUE
saveEmailRows(tbl, emailId, t, i) ==
  IF HasEmailId(tbl, emailId) THEN tbl
  ELSE Append(tbl, [id |-> Len(tbl) + 1, email_id |-> emailId,
                    created_at |-> SqlCurrentTimestamp(t), by |-> i])

\* this.lastID after the INSERT OR IGNORE
saveEmailLastID(tbl, emailId, last) ==
  IF HasEmailId(tbl, emailId) THEN last ELSE Len(tbl) + 1

\* INSERT INTO claims
saveClaimRows(tbl, emailId, result, i, m) ==
  Append(tbl, [id |-> Len(tbl) + 1, email_id |-> emailId,
               is_claim |-> result.isClaim, confidence |-> result.confidence,
               category |-> result.category, severity |-> result.severity,
               reason |-> result.reason, keywords |-> result.keywords,
               summary |-> result.summary, raw_response |-> result.rawResponse,
               by |-> i, msg |-> m])

LogStatus(errors) == IF errors # <<>> THEN "error" ELSE "success"

\* INSERT INTO processing_log
logProcessingRunRows(tbl, startTime, endTime, emailsProcessed, claimsDetected, errors, i) ==
  Append(tbl, [id |-> Len(tbl) + 1, run_started_at |-> startTime,
               run_completed_at |-> endTime,
               emails_processed |-> emailsProcessed,
               claims_detected |-> claimsDetected, errors |-> errors,
               status |-> LogStatus(errors), by |-> i])

\* variant: the query matches no run
getLastProcessingTimeNone(tbl) == NoTime

\* SELECT run_completed_at ... WHERE status = 'success'
\* ORDER BY run_completed_at DESC LIMIT 1
getLastProcessingTime(tbl) ==
  LET ok == {n \in 1..Len(tbl) : tbl[n].status = "success"}
  IN IF ok = {} THEN NoTime ELSE MaxOf({tbl[n].run_completed_at : n \in ok})

\* SELECT COUNT(*) FROM emails WHERE created_at >= ?   (? = ISO text)
countProcessedEmails(etbl, startTime) ==
  Cardinality({n \in 1..Len(etbl) :
                 TextGE(etbl[n].created_at, toISOString(startTime))})

\* SELECT COUNT(*) FROM claims c JOIN emails e ON c.email_id = e.id
\* WHERE c.is_claim = 1 AND e.created_at >= ?
countDetectedClaims(ctbl, etbl, startTime) ==
  Cardinality({c \in 1..Len(ctbl) :
     /\ ctbl[c].is_claim
     /\ \E n \in 1..Len(etbl) :
          /\ etbl[n].id = ctbl[c].email_id
          /\ TextGE(etbl[n].created_at, toISOString(startTime))})

(***************************************************************************)
(* Mail Source (ExchangeService).                                          *)
(***************************************************************************)
\* variant: the range is asked for by `days` alone
HasDateRangeDaysOnly(options) == options.days # 0

\* days || hours || startDate || endDate
HasDateRange(options) ==
  \/ options.days # 0 \/ options.hours # 0
  \/ options.startDate # NoTime \/ options.endDate # NoTime

\* buildDateRange: an explicit start date wins over daysAgo, daysAgo over
\* hoursAgo; the end date is the explicit one or none (the hours option
\* counts clock ticks)
buildDateRange(options, t) ==
  [present |-> TRUE,
   startDate |-> IF options.startDate # NoTime THEN options.startDate
                 ELSE IF options.days # 0 THEN t - options.days * TicksPerDay
                 ELSE IF options.hours # 0 THEN t - options.hours
                 ELSE NoTime,
   endDate |-> options.endDate]

RECURSIVE SortNewestFirst(_)
SortNewestFirst(S) ==
  IF S = {} THEN <<>>
  ELSE LET m == CHOOSE x \in S : \A y \in S :
                  mail[x].receivedDateTime >= mail[y].receivedDateTime
       IN <<m>> \o SortNewestFirst(S \ {m})

Top(s, n) == IF Len(s) <= n THEN s ELSE SubSeq(s, 1, n)

TargetMailbox(mailboxEmail) == IF mailboxEmail # "" THEN mailboxEmail ELSE "default"

\* getEmails(lastCheckDate, dateRange, mailboxEmail)
getEmails(box, lastCheckDate, dateRange, mailboxEmail) ==
  LET pass(m) ==
        IF lastCheckDate # NoTime /\ ~dateRange.present
        THEN mail[m].receivedDateTime > lastCheckDate
        ELSE IF dateRange.present
        THEN /\ (dateRange.startDate # NoTime =>
                   mail[m].receivedDateTime >= dateRange.startDate)
             /\ (dateRange.endDate # NoTime =>
                   mail[m].receivedDateTime <= dateRange.endDate)
        ELSE TRUE
      hits == {m \in box : mail[m].mailbox = TargetMailbox(mailboxEmail)
                           /\ pass(m)}
  IN Top(SortNewestFirst(hits), maxEmailsPerRun)

(***************************************************************************)
(* Completion Service (OpenAIService / LocalLLMService).                   *)
(***************************************************************************)
\* variant: without the floor of Math.max
setConcurrentLimitNoFloor(limit) ==
  IF limit = 0 THEN DefaultConcurrentLimit ELSE limit

\* OpenAIService.setConcurrentLimit: Math.max(1, parseInt(limit) || 3)
setConcurrentLimit(limit) ==
  LET n == IF limit = 0 THEN DefaultConcurrentLimit ELSE limit
  IN IF n < 1 THEN 1 ELSE n

\* the result analyzeEmailsConcurrently substitutes for a failed call
\* variant: the marker does not carry the failure's message
AnalysisErrorResultBare(message) ==
  [isClaim |-> FALSE, confidence |-> 0, category |-> "other",
   severity |-> "medium", reason |-> JStr("analysis error"),
   keywords |-> <<>>, summary |-> JStr(""), rawResponse |-> NullRaw,
   error |-> message]

AnalysisErrorResult(message) ==
  [isClaim |-> FALSE, confidence |-> 0, category |-> "other",
   severity |-> "medium",
   reason |-> [t |-> "str", v |-> "analysis error", of |-> message],
   keywords |-> <<>>, summary |-> JStr(""), rawResponse |-> NullRaw,
   error |-> message]

excludedResult ==
  [isClaim |-> FALSE, confidence |-> 0, category |-> "excluded",
   severity |-> "none", reason |-> JStr("excluded by sender/subject filters"),
   keywords |-> <<>>, summary |-> JStr("Excluded from analysis"),
   rawResponse |-> NullRaw]


\* OpenAIService.chunkArray
RECURSIVE chunkArray(_, _)
\* variant: the size is not looked at
chunkArrayWhole(array, size) == IF array = <<>> THEN <<>> ELSE <<array>>

chunkArray(array, size) ==
  IF array = <<>> THEN <<>>
  ELSE IF Len(array) <= size THEN <<array>>
  ELSE <<SubSeq(array, 1, size)>> \o
       chunkArray(SubSeq(array, size + 1, Len(array)), size)

\* callAI for message m settles: rejected by the stub or by an injected
\* failure, otherwise the stubbed raw completion
CallFails(m, ok) == ~ok \/ stub[m] = StubFail

\* parsedResult.confidence === 0 && parsedResult.reason.includes(...): the
\* second operand is evaluated when the first holds, and only strings and
\* arrays have an includes method
ReasonTraceThrows(parsed) ==
  parsed.confidence = 0 /\ parsed.reason.t \notin {"str", "arr"}

\* analyzeEmailForClaim once callAI has returned `raw`: the parsed result, or
\* what the function rethrows
analyzeEmailForClaim(raw, debug) ==
  LET parsedResult == parseAnalysisResult(raw)
  IN IF Threw(parsedResult) THEN parsedResult
     ELSE IF debug /\ ReasonTraceThrows(parsedResult)
          THEN Thrown("parsedResult.reason.includes is not a function")
          ELSE parsedResult

(***************************************************************************)
(* processEmails: entry, re-entrancy guard, backend start.                 *)
(***************************************************************************)
W(i) == inv[i].world
Set(i, r) == inv' = [inv EXCEPT ![i] = r]

maxRetries == 30

\* the locals of a run at `this.isRunning = true; const startTime = new Date()`
Started(r, o) ==
  [r EXCEPT !.options = o, !.entered = TRUE, !.startTime = now,
            !.dateRange = IF HasDateRange(o) THEN buildDateRange(o, now)
                          ELSE NoRange,
            !.pc = IF HasDateRange(o) THEN "getEmails"
                   ELSE "getLastProcessingTime"]

\* setConcurrentLimit (hosted backend only), then isRunning = true
StartRun(i, r, o) ==
  /\ isRunning' = [isRunning EXCEPT ![W(i)] = TRUE]
  /\ concurrentLimit' =
       [concurrentLimit EXCEPT
          ![W(i)] = IF o.concurrency # 0 /\ ~o.useLocalLLM
                    THEN setConcurrentLimit(o.concurrency) ELSE @]
  /\ Set(i, Started(r, o))

\* an exception that leaves processEmails without passing through finally
Raise(r, message) ==
  [r EXCEPT !.pc = "done", !.outcome = "raised", !.error = <<message>>]

\* the guard `if (this.isRunning) return;`
Refused(running) == running

\* history: the runs that had terminated when invocation i was made
Called(i, o) ==
  [inv[i] EXCEPT !.options = o,
                 !.after = {j \in Inv : inv[j].entered /\ inv[j].pc = "done"},
                 !.during = {j \in Inv : inv[j].entered /\ inv[j].pc # "done"
                                          /\ inv[j].world = inv[i].world}]

\* invocations are numbered in the order in which they are made
\* variant: the refused call leaves through the finally block of the run
SkipThroughFinally(i, o) ==
  /\ Set(i, [Called(i, o) EXCEPT !.pc = "done", !.outcome = "refused"])
  /\ isRunning' = [isRunning EXCEPT ![W(i)] = FALSE]
  /\ UNCHANGED concurrentLimit

\* if (this.isRunning) { console.log(...); return; }
Skip(i, o) ==
  /\ Set(i, [Called(i, o) EXCEPT !.pc = "done", !.outcome = "refused"])
  /\ UNCHANGED <<isRunning, concurrentLimit>>

Invoke(i, o) ==
  /\ inv[i].pc = "idle"
  /\ \A j \in Inv : j < i => inv[j].pc # "idle"
  /\ IF Refused(isRunning[W(i)])
     THEN Skip(i, o)
     ELSE IF o.useLocalLLM
     THEN /\ Set(i, [Called(i, o) EXCEPT !.pc = "checkServerHealth"])
          /\ UNCHANGED <<isRunning, concurrentLimit>>
     ELSE StartRun(i, Called(i, o), o)
  /\ UNCHANGED <<now, env, faults, server, emails, claims, processing_log,
                 lastID>>

\* checkServerHealth: GET http://localhost:5834/health.  A server that is
\* "loading" or "ready" answers status 'ok' (model_loaded only when ready);
\* with nothing listening on that port the fetch throws and the probe
\* yields status 'error'.  "elsewhere" is "down" with ONNX_NPU_PORT naming
\* another port, so that a server started by this program is not the one the
\* probes reach
HealthOk(s) == s \in {"loading", "ready"}
HealthReady(s) == s = "ready"

\* startServer: the first health probe
CheckServerHealth(i) ==
  /\ inv[i].pc = "checkServerHealth"
  /\ IF HealthOk(server)
     THEN StartRun(i, inv[i], inv[i].options)
     ELSE /\ Set(i, [inv[i] EXCEPT !.pc = "onnxServerStart"])
          /\ UNCHANGED <<isRunning, concurrentLimit>>
  /\ UNCHANGED <<now, env, faults, server, emails, claims, processing_log,
                 lastID>>

\* startServer: await this.onnxServer.start(); a failure makes startServer
\* return false and processEmails throw before the try block
OnnxServerStart(i) ==
  /\ inv[i].pc = "onnxServerStart"
  /\ \E ok \in Oks :
       /\ Fault(ok)
       /\ IF ok /\ ~HealthOk(server)
          THEN /\ server' = IF server = "down" THEN "ready" ELSE server
               /\ Set(i, [inv[i] EXCEPT !.pc = "waitForServer", !.retries = 0])
          ELSE /\ server' = server
               /\ Set(i, Raise(inv[i], ErrorMessage("startServer", 0)))
  /\ UNCHANGED <<now, env, isRunning, concurrentLimit, emails, claims,
                 processing_log, lastID>>

\* the loop of waitForServer without its bound
WaitForServerForever(i) ==
  /\ inv[i].pc = "waitForServer"
  /\ IF HealthReady(server)
     THEN StartRun(i, [inv[i] EXCEPT !.retries = 0], inv[i].options)
     ELSE /\ Set(i, [inv[i] EXCEPT !.retries = @ + 1])
          /\ UNCHANGED <<isRunning, concurrentLimit>>
  /\ UNCHANGED <<now, env, faults, server, emails, claims, processing_log,
                 lastID>>

\* waitForServer: one turn of the polling loop, the probe and, when it does
\* not report ok with the model loaded, the sleep of intervalMs after it.
\* retries is the loop's counter i, a local that ends with the call
WaitForServer(i) ==
  /\ inv[i].pc = "waitForServer"
  /\ IF HealthReady(server)
     THEN StartRun(i, [inv[i] EXCEPT !.retries = 0], inv[i].options)
     ELSE /\ IF inv[i].retries + 1 >= maxRetries
             THEN Set(i, Raise(inv[i], ErrorMessage("startServer", 0)))
             ELSE Set(i, [inv[i] EXCEPT !.retries = @ + 1])
          /\ UNCHANGED <<isRunning, concurrentLimit>>
  /\ UNCHANGED <<now, env, faults, server, emails, claims, processing_log,
                 lastID>>

\* the environment of the probes: a server on port 5834 comes up, then
\* finishes loading its model.  The server is read by the probes only, so
\* the step is taken while somebody polls
ServerProgress ==
  /\ \E i \in Inv : inv[i].pc = "waitForServer"
  /\ server \in {"elsewhere", "loading"}
  /\ server' = IF server = "elsewhere" THEN "loading" ELSE "ready"
  /\ UNCHANGED <<now, env, faults, isRunning, concurrentLimit, emails, claims,
                 processing_log, lastID, inv>>

(***************************************************************************)
(* processEmails: source selection.                                        *)
(***************************************************************************)
\* catch (error) { errors = error.message; throw error } followed by the
\* entry of finally, which takes endTime
Fatal(r, message) ==
  [r EXCEPT !.errors = <<message>>, !.thrown = <<message>>,
            !.endTime = now, !.pc = "logProcessingRun"]

\* normal entry of finally
EnterFinally(r) == [r EXCEPT !.endTime = now, !.pc = "logProcessingRun"]

GetLastProcessingTime(i) ==
  /\ inv[i].pc = "getLastProcessingTime"
  /\ \E ok \in Oks :
       /\ Fault(ok)
       /\ IF ok
          THEN Set(i, [inv[i] EXCEPT
                 !.lastProcessingTime = getLastProcessingTime(processing_log[W(i)]),
                 !.cursorReads = @ + 1,
                 !.pc = "getEmails"])
          ELSE Set(i, Fatal([inv[i] EXCEPT !.cursorReads = @ + 1],
                            ErrorMessage("getLastProcessingTime", 0)))
  /\ UNCHANGED <<now, env, server, isRunning, concurrentLimit, emails, claims,
                 processing_log, lastID>>

\* variant: the backend is not looked at
ChunkedModeAnyBackend(options) == options.concurrency > 1

\* if (!useLocalLLM && concurrency && concurrency > 1)
ChunkedMode(options) == ~options.useLocalLLM /\ options.concurrency > 1

\* variant: the empty batch returns before the try block is entered
AfterListingEarlyReturn(r, batch) ==
  IF Len(batch) = 0
  THEN [r EXCEPT !.emails = batch, !.pc = "done", !.outcome = "returned",
                 !.retval = [emailsProcessed |-> 0, claimsDetected |-> 0]]
  ELSE [r EXCEPT !.emails = batch, !.k = 1,
                 !.pc = IF ChunkedMode(r.options)
                        THEN "conc_isEmailProcessed"
                        ELSE "seq_isEmailProcessed"]

\* the branch taken once the batch is known
AfterListing(r, batch) ==
  IF Len(batch) = 0 THEN EnterFinally([r EXCEPT !.emails = batch])
  ELSE [r EXCEPT !.emails = batch, !.k = 1,
                 !.pc = IF ChunkedMode(r.options)
                        THEN "conc_isEmailProcessed"
                        ELSE "seq_isEmailProcessed"]

\* the call getEmails(lastCheckDate, dateRange, mailboxEmail) is issued
Listing(r) ==
  [r EXCEPT !.listingCalls =
      Append(@, [lastCheckDate |-> r.lastProcessingTime,
                 dateRange |-> r.dateRange,
                 mailbox |-> TargetMailbox(r.options.emailAddress)])]

\* what the Mail Source holds when the listing is made: the messages
\* received by then
Received(box) == {m \in box : mail[m].receivedDateTime <= now}

GetEmails(i) ==
  /\ inv[i].pc = "getEmails"
  /\ \E ok \in Oks :
       /\ Fault(ok)
       /\ IF ok
          THEN Set(i, AfterListing(Listing(inv[i]),
                        getEmails(Received(mailbox), inv[i].lastProcessingTime,
                                  inv[i].dateRange, inv[i].options.emailAddress)))
          ELSE Set(i, Fatal(Listing(inv[i]), ErrorMessage("getEmails", 0)))
  /\ UNCHANGED <<now, env, server, isRunning, concurrentLimit, emails, claims,
                 processing_log, lastID>>


(***************************************************************************)
(* processSequentially.                                                    *)
(***************************************************************************)
Cur(r) == r.emails[r.k]

\* end of one iteration of the for loop
SeqNext(r) ==
  IF r.k < Len(r.emails)
  THEN [r EXCEPT !.k = @ + 1, !.pc = "seq_isEmailProcessed"]
  ELSE [r EXCEPT !.pc = "countProcessedEmails"]

\* variant: the handler rethrows
SeqCatchRethrow(r, message) == Fatal(r, message)

\* catch (emailError) { console.error(...) }: the loop goes on
SeqCatch(r, message) == SeqNext([r EXCEPT !.caught = @ \cup {message}])

\* variant: the text test comes before the exclusion test
\* the branch after saveEmail without the test of emailText.trim()
RouteAnyText(r, w, nextPc, exclPc, anaPc) ==
  LET email == mail[Cur(r)]
  IN IF shouldExcludeFromClaimDetection(exclusionList[w], email.senderEmail,
                                        email.subject)
     THEN exclPc
     ELSE anaPc

RouteTextFirst(r, w, nextPc, exclPc, anaPc) ==
  LET email == mail[Cur(r)]
  IN IF ~TrimIsEmpty(extractTextFromEmail(email)) THEN anaPc
     ELSE IF shouldExcludeFromClaimDetection(exclusionList[w],
                                             email.senderEmail, email.subject)
     THEN exclPc
     ELSE nextPc

\* the branch after saveEmail: excluded, analysed, or neither
Route(r, w, nextPc, exclPc, anaPc) ==
  LET email == mail[Cur(r)]
  IN IF shouldExcludeFromClaimDetection(exclusionList[w], email.senderEmail,
                                        email.subject)
     THEN exclPc
     ELSE IF ~TrimIsEmpty(extractTextFromEmail(email)) THEN anaPc
     ELSE nextPc

\* history: the current message was already recorded when it was examined
Examined(i) ==
  [inv[i] EXCEPT !.seenRecorded =
     IF HasEmailId(emails[W(i)], Cur(inv[i])) THEN @ \cup {Cur(inv[i])} ELSE @]

SeqIsEmailProcessed(i) ==
  /\ inv[i].pc = "seq_isEmailProcessed"
  /\ \E ok \in Oks :
       /\ Fault(ok)
       /\ IF ~ok
          THEN Set(i, SeqCatch(inv[i], ErrorMessage("isEmailProcessed", Cur(inv[i]))))
          ELSE IF isEmailProcessed(emails[W(i)], Cur(inv[i]))
          THEN Set(i, SeqNext(Examined(i)))
          ELSE Set(i, [Examined(i) EXCEPT !.pc = "seq_getEmailDetails",
                                          !.detailCalls = @ \cup {Cur(inv[i])}])
  /\ UNCHANGED <<now, env, server, isRunning, concurrentLimit, emails, claims,
                 processing_log, lastID>>

SeqGetEmailDetails(i) ==
  /\ inv[i].pc = "seq_getEmailDetails"
  /\ \E ok \in Oks :
       /\ Fault(ok)
       /\ IF ok
          THEN Set(i, [inv[i] EXCEPT !.pc = "seq_saveEmail"])
          ELSE Set(i, SeqCatch(inv[i], ErrorMessage("getEmailDetails", Cur(inv[i]))))
  /\ UNCHANGED <<now, env, server, isRunning, concurrentLimit, emails, claims,
                 processing_log, lastID>>

SeqSaveEmail(i) ==
  /\ inv[i].pc = "seq_saveEmail"
  /\ \E ok \in Oks :
       /\ Fault(ok)
       /\ IF ok
          THEN LET w == W(i)
                   m == Cur(inv[i])
                   id == saveEmailLastID(emails[w], m, lastID[w])
                   to == Route(inv[i], w, "seq_delay", "seq_saveExcluded",
                               "seq_analyze")
               IN /\ emails' = [emails EXCEPT ![w] = saveEmailRows(@, m, now, i)]
                  /\ lastID' = [lastID EXCEPT ![w] = id]
                  /\ Set(i, [inv[i] EXCEPT
                        !.savedEmailId = id, !.pc = to,
                        !.completionCalls =
                           IF to = "seq_analyze" THEN @ \cup {m} ELSE @])
          ELSE /\ Set(i, SeqCatch(inv[i], ErrorMessage("saveEmail", Cur(inv[i]))))
               /\ UNCHANGED <<emails, lastID>>
  /\ UNCHANGED <<now, env, server, isRunning, concurrentLimit, claims,
                 processing_log>>

SeqSaveExcluded(i) ==
  /\ inv[i].pc = "seq_saveExcluded"
  /\ \E ok \in Oks :
       /\ Fault(ok)
       /\ IF ok
          THEN LET w == W(i)
               IN /\ claims' = [claims EXCEPT ![w] =
                        saveClaimRows(@, inv[i].savedEmailId, excludedResult, i,
                                      Cur(inv[i]))]
                  /\ lastID' = [lastID EXCEPT ![w] = Len(claims[w]) + 1]
                  /\ Set(i, [inv[i] EXCEPT !.pc = "seq_delay"])
          ELSE /\ Set(i, SeqCatch(inv[i], ErrorMessage("saveClaim", Cur(inv[i]))))
               /\ UNCHANGED <<claims, lastID>>
  /\ UNCHANGED <<now, env, server, isRunning, concurrentLimit, emails,
                 processing_log>>

\* analyzeEmailForClaim: callAI settles, the raw text is normalized
SeqAnalyze(i) ==
  /\ inv[i].pc = "seq_analyze"
  /\ \E ok \in Oks :
       /\ Fault(ok)
       /\ IF CallFails(Cur(inv[i]), ok)
          THEN Set(i, SeqCatch(inv[i], ErrorMessage("callAI", Cur(inv[i]))))
          ELSE LET analysisResult ==
                     analyzeEmailForClaim(stub[Cur(inv[i])], inv[i].options.debug)
               IN IF Threw(analysisResult)
                  THEN Set(i, SeqCatch(inv[i],
                              ErrorMessage("analyzeEmailForClaim", Cur(inv[i]))))
                  ELSE Set(i, [inv[i] EXCEPT
                         !.pc = "seq_saveClaim",
                         !.analysisResults =
                            << [emailId |-> inv[i].savedEmailId,
                                result |-> analysisResult,
                                msg |-> Cur(inv[i])] >>])
  /\ UNCHANGED <<now, env, server, isRunning, concurrentLimit, emails, claims,
                 processing_log, lastID>>

SeqSaveClaim(i) ==
  /\ inv[i].pc = "seq_saveClaim"
  /\ \E ok \in Oks :
       /\ Fault(ok)
       /\ IF ok
          THEN LET w == W(i)
                   a == inv[i].analysisResults[1]
               IN /\ claims' = [claims EXCEPT ![w] =
                        saveClaimRows(@, a.emailId, a.result, i, a.msg)]
                  /\ lastID' = [lastID EXCEPT ![w] = Len(claims[w]) + 1]
                  /\ Set(i, [inv[i] EXCEPT !.pc = "seq_delay"])
          ELSE /\ Set(i, SeqCatch(inv[i], ErrorMessage("saveClaim", Cur(inv[i]))))
               /\ UNCHANGED <<claims, lastID>>
  /\ UNCHANGED <<now, env, server, isRunning, concurrentLimit, emails,
                 processing_log>>

\* variant: the loop goes on without waiting
SeqDelayNoWait(i) ==
  /\ inv[i].pc = "seq_delay"
  /\ Set(i, SeqNext(inv[i]))
  /\ UNCHANGED <<now, env, faults, server, isRunning, concurrentLimit, emails,
                 claims, processing_log, lastID>>

\* await this.delay(1000)
SeqDelay(i) ==
  /\ inv[i].pc = "seq_delay"
  /\ now' = now + 1
  /\ Set(i, SeqNext(inv[i]))
  /\ UNCHANGED <<env, faults, server, isRunning, concurrentLimit, emails,
                 claims, processing_log, lastID>>


(***************************************************************************)
(* processConcurrently and OpenAIService.analyzeEmailsConcurrently.        *)
(***************************************************************************)
Pending(n) == [j \in 1..n |-> NoResult]

\* dispatch of the chunk that follows the processedCount handled messages:
\* chunk.map(async ...) issues every call of the chunk
Dispatch(r) ==
  LET c == r.chunks[1]
  IN [r EXCEPT !.pc = "conc_analyze", !.inflight = 1..Len(c),
               !.chunkResults = Pending(Len(c)),
               !.completionCalls = @ \cup {c[j].emailId : j \in 1..Len(c)}]

\* end of one iteration of the first loop of processConcurrently; after the
\* last one analyzeEmailsConcurrently is called with the current limit
ConcNext(r, limit) ==
  IF r.k < Len(r.emails)
  THEN [r EXCEPT !.k = @ + 1, !.pc = "conc_isEmailProcessed"]
  ELSE IF r.unprocessedEmails = <<>>
  THEN [r EXCEPT !.pc = "countProcessedEmails"]
  ELSE Dispatch([r EXCEPT !.chunks = chunkArray(r.unprocessedEmails, limit),
                          !.processedCount = 0, !.analysisResults = <<>>])

ConcIsEmailProcessed(i) ==
  /\ inv[i].pc = "conc_isEmailProcessed"
  /\ \E ok \in Oks :
       /\ Fault(ok)
       /\ IF ~ok
          THEN Set(i, Fatal(inv[i], ErrorMessage("isEmailProcessed", Cur(inv[i]))))
          ELSE IF isEmailProcessed(emails[W(i)], Cur(inv[i]))
          THEN Set(i, ConcNext(Examined(i), concurrentLimit[W(i)]))
          ELSE Set(i, [Examined(i) EXCEPT !.pc = "conc_getEmailDetails",
                                          !.detailCalls = @ \cup {Cur(inv[i])}])
  /\ UNCHANGED <<now, env, server, isRunning, concurrentLimit, emails, claims,
                 processing_log, lastID>>

ConcGetEmailDetails(i) ==
  /\ inv[i].pc = "conc_getEmailDetails"
  /\ \E ok \in Oks :
       /\ Fault(ok)
       /\ IF ok
          THEN Set(i, [inv[i] EXCEPT !.pc = "conc_saveEmail"])
          ELSE Set(i, Fatal(inv[i], ErrorMessage("getEmailDetails", Cur(inv[i]))))
  /\ UNCHANGED <<now, env, server, isRunning, concurrentLimit, emails, claims,
                 processing_log, lastID>>

ConcSaveEmail(i) ==
  /\ inv[i].pc = "conc_saveEmail"
  /\ \E ok \in Oks :
       /\ Fault(ok)
       /\ IF ok
          THEN LET w == W(i)
                   m == Cur(inv[i])
                   id == saveEmailLastID(emails[w], m, lastID[w])
                   to == Route(inv[i], w, "next", "conc_saveExcluded", "push")
                   r1 == [inv[i] EXCEPT !.savedEmailId = id]
               IN /\ emails' = [emails EXCEPT ![w] = saveEmailRows(@, m, now, i)]
                  /\ lastID' = [lastID EXCEPT ![w] = id]
                  /\ Set(i, CASE to = "conc_saveExcluded" ->
                                   [r1 EXCEPT !.pc = "conc_saveExcluded"]
                              [] to = "push" ->
                                   ConcNext([r1 EXCEPT !.unprocessedEmails =
                                       Append(@, [id |-> id, emailId |-> m])],
                                     concurrentLimit[w])
                              [] OTHER -> ConcNext(r1, concurrentLimit[w]))
          ELSE /\ Set(i, Fatal(inv[i], ErrorMessage("saveEmail", Cur(inv[i]))))
               /\ UNCHANGED <<emails, lastID>>
  /\ UNCHANGED <<now, env, server, isRunning, concurrentLimit, claims,
                 processing_log>>

ConcSaveExcluded(i) ==
  /\ inv[i].pc = "conc_saveExcluded"
  /\ \E ok \in Oks :
       /\ Fault(ok)
       /\ IF ok
          THEN LET w == W(i)
               IN /\ claims' = [claims EXCEPT ![w] =
                        saveClaimRows(@, inv[i].savedEmailId, excludedResult, i,
                                      Cur(inv[i]))]
                  /\ lastID' = [lastID EXCEPT ![w] = Len(claims[w]) + 1]
                  /\ Set(i, ConcNext(inv[i], concurrentLimit[w]))
          ELSE /\ Set(i, Fatal(inv[i], ErrorMessage("saveClaim", Cur(inv[i]))))
               /\ UNCHANGED <<claims, lastID>>
  /\ UNCHANGED <<now, env, server, isRunning, concurrentLimit, emails,
                 processing_log>>

\* variant: the result is keyed by the external id
ResultKeyExternal(email) == email.emailId

\* emailId: email.id || email.emailId
ResultKey(email) == IF email.id # 0 THEN email.id ELSE email.emailId

\* the {emailId, result} pair one call of a chunk resolves to
ChunkCallResult(email, failed, debug) ==
  [emailId |-> ResultKey(email),
   result |-> IF failed
              THEN AnalysisErrorResult(ErrorMessage("callAI", email.emailId))
              ELSE LET result == analyzeEmailForClaim(stub[email.emailId], debug)
                   IN IF Threw(result)
                      THEN AnalysisErrorResult(
                             ErrorMessage("analyzeEmailForClaim", email.emailId))
                      ELSE result,
   msg |-> email.emailId]

\* variant: the results are stored as soon as their chunk has settled
ChunkDoneSaveEach(r) ==
  [r EXCEPT !.analysisResults = @ \o r.chunkResults,
            !.processedCount = r.processedCount + Len(r.chunks[1]),
            !.chunks = Tail(@), !.chunkResults = <<>>,
            !.pc = "conc_saveClaim", !.k = Len(r.analysisResults) + 1]

\* variant: the results of a chunk replace those of the chunks before it
ChunkDoneKeepLast(r) ==
  LET done == r.processedCount + Len(r.chunks[1])
      total == Len(r.unprocessedEmails)
      r1 == [r EXCEPT !.analysisResults = r.chunkResults,
                      !.processedCount = done, !.chunks = Tail(@),
                      !.chunkResults = <<>>]
  IN IF done < total THEN [r1 EXCEPT !.pc = "conc_chunkDelay"]
     ELSE [r1 EXCEPT !.pc = "conc_saveClaim", !.k = 1]

\* Promise.all(chunkPromises) has resolved
ChunkDone(r) ==
  LET done == r.processedCount + Len(r.chunks[1])
      total == Len(r.unprocessedEmails)
      r1 == [r EXCEPT !.analysisResults = @ \o r.chunkResults,
                      !.processedCount = done, !.chunks = Tail(@),
                      !.chunkResults = <<>>]
  IN IF done < total THEN [r1 EXCEPT !.pc = "conc_chunkDelay"]
     ELSE [r1 EXCEPT !.pc = "conc_saveClaim", !.k = 1]

\* the call for the j-th message of the current chunk settles
ConcSettle(i, j) ==
  /\ inv[i].pc = "conc_analyze"
  /\ j \in inv[i].inflight
  /\ \E ok \in Oks :
       /\ Fault(ok)
       /\ LET email == inv[i].chunks[1][j]
              r1 == [inv[i] EXCEPT
                       !.inflight = @ \ {j},
                       !.chunkResults[j] =
                          ChunkCallResult(email, CallFails(email.emailId, ok),
                                          inv[i].options.debug)]
          IN Set(i, IF r1.inflight = {} THEN ChunkDone(r1) ELSE r1)
  /\ UNCHANGED <<now, env, server, isRunning, concurrentLimit, emails, claims,
                 processing_log, lastID>>

\* await this.delay(1000) between two chunks, then the next chunk is issued
ConcChunkDelay(i) ==
  /\ inv[i].pc = "conc_chunkDelay"
  /\ now' = now + 1
  /\ Set(i, Dispatch(inv[i]))
  /\ UNCHANGED <<env, faults, server, isRunning, concurrentLimit, emails,
                 claims, processing_log, lastID>>

\* for (const {emailId, result} of analysisResults) await saveClaim(...)
ConcSaveClaim(i) ==
  /\ inv[i].pc = "conc_saveClaim"
  /\ \E ok \in Oks :
       /\ Fault(ok)
       /\ LET w == W(i)
              a == inv[i].analysisResults[inv[i].k]
          IN IF ok
             THEN /\ claims' = [claims EXCEPT ![w] =
                        saveClaimRows(@, a.emailId, a.result, i, a.msg)]
                  /\ lastID' = [lastID EXCEPT ![w] = Len(claims[w]) + 1]
                  /\ Set(i, IF inv[i].k < Len(inv[i].analysisResults)
                            THEN [inv[i] EXCEPT !.k = @ + 1]
                            ELSE [inv[i] EXCEPT !.pc = "countProcessedEmails"])
             ELSE /\ Set(i, Fatal(inv[i], ErrorMessage("saveClaim", a.msg)))
                  /\ UNCHANGED <<claims, lastID>>
  /\ UNCHANGED <<now, env, server, isRunning, concurrentLimit, emails,
                 processing_log>>

(***************************************************************************)
(* processEmails: counts and finalization.                                 *)
(***************************************************************************)
CountProcessedEmails(i) ==
  /\ inv[i].pc = "countProcessedEmails"
  /\ \E ok \in Oks :
       /\ Fault(ok)
       /\ IF ok
          THEN Set(i, [inv[i] EXCEPT
                 !.emailsProcessed =
                    countProcessedEmails(emails[W(i)], inv[i].startTime),
                 !.pc = "countDetectedClaims"])
          ELSE Set(i, Fatal(inv[i], ErrorMessage("countProcessedEmails", 0)))
  /\ UNCHANGED <<now, env, server, isRunning, concurrentLimit, emails, claims,
                 processing_log, lastID>>

CountDetectedClaims(i) ==
  /\ inv[i].pc = "countDetectedClaims"
  /\ \E ok \in Oks :
       /\ Fault(ok)
       /\ IF ok
          THEN Set(i, EnterFinally([inv[i] EXCEPT
                 !.claimsDetected =
                    countDetectedClaims(claims[W(i)], emails[W(i)],
                                        inv[i].startTime)]))
          ELSE Set(i, Fatal(inv[i], ErrorMessage("countDetectedClaims", 0)))
  /\ UNCHANGED <<now, env, server, isRunning, concurrentLimit, emails, claims,
                 processing_log, lastID>>

\* how the invocation ends once finally has completed
Completed(r) ==
  IF r.thrown # <<>>
  THEN [r EXCEPT !.pc = "done", !.outcome = "raised", !.error = r.thrown]
  ELSE [r EXCEPT !.pc = "done", !.outcome = "returned",
                 !.retval = [emailsProcessed |-> r.emailsProcessed,
                             claimsDetected |-> r.claimsDetected]]

\* finally { await logProcessingRun(...); this.isRunning = false }
LogProcessingRun(i) ==
  /\ inv[i].pc = "logProcessingRun"
  /\ \E ok \in Oks :
       /\ Fault(ok)
       /\ IF ok
          THEN LET w == W(i)
               IN /\ processing_log' = [processing_log EXCEPT ![w] =
                        logProcessingRunRows(@, inv[i].startTime, inv[i].endTime,
                           inv[i].emailsProcessed, inv[i].claimsDetected,
                           inv[i].errors, i)]
                  /\ lastID' = [lastID EXCEPT ![w] = Len(processing_log[w]) + 1]
                  /\ isRunning' = [isRunning EXCEPT ![w] = FALSE]
                  /\ Set(i, Completed(inv[i]))
          ELSE /\ Set(i, Raise(inv[i], ErrorMessage("logProcessingRun", 0)))
               /\ UNCHANGED <<processing_log, lastID, isRunning>>
  /\ UNCHANGED <<now, env, server, concurrentLimit, emails, claims>>

(***************************************************************************)
(* Specifications.                                                         *)
(***************************************************************************)
HostedSeq == NoOptions
HostedRange == [NoOptions EXCEPT !.days = 2 * MaxMsgs]
HostedConc == [NoOptions EXCEPT !.concurrency = 2]
LocalSeq == [NoOptions EXCEPT !.useLocalLLM = TRUE]

OneWorld == [i \in Inv |-> 1]

Pipeline(i) ==
  \/ GetLastProcessingTime(i) \/ GetEmails(i)
  \/ SeqIsEmailProcessed(i) \/ SeqGetEmailDetails(i) \/ SeqSaveEmail(i)
  \/ SeqSaveExcluded(i) \/ SeqAnalyze(i) \/ SeqSaveClaim(i) \/ SeqDelay(i)
  \/ CountProcessedEmails(i) \/ CountDetectedClaims(i) \/ LogProcessingRun(i)

Concurrent(i) ==
  \/ ConcIsEmailProcessed(i) \/ ConcGetEmailDetails(i) \/ ConcSaveEmail(i)
  \/ ConcSaveExcluded(i) \/ (\E j \in 1..MaxMsgs : ConcSettle(i, j))
  \/ ConcSaveClaim(i)

BackendStart(i) == CheckServerHealth(i) \/ OnnxServerStart(i) \/ WaitForServer(i)

\* Spec: hosted backend, incremental sequential and chunked-concurrent runs
\* on one orchestrator
Init ==
  InitWith(InitClocks, OneWorld, {MsgIds}, {AllPlain, Mixed}, {DefaultStub}, 0,
           {"down"})
Next ==
  \E i \in Inv :
     \/ \E o \in {HostedSeq, HostedConc} : Invoke(i, o)
     \/ Pipeline(i)
     \/ Concurrent(i)
     \/ ConcChunkDelay(i)
Spec == Init /\ [][Next]_vars

\* SpecRace: hosted and self-hosted invocations racing on one orchestrator
InitRace ==
  InitWith(InitClocks, OneWorld, {{m \in MsgIds : m <= 2}}, {Mixed},
           {DefaultStub}, 0, {"down", "ready"})
Racers == {1, 2}
NextRace ==
  \E i \in Racers :
     \/ \E o \in {HostedSeq, LocalSeq} : Invoke(i, o)
     \/ BackendStart(i)
     \/ Pipeline(i)
SpecRace == InitRace /\ [][NextRace]_vars

\* SpecEquiv: the same batch and the same stubbed completions given to
\* separate orchestrators, odd invocations with concurrency=1, even ones
\* with concurrency=5; no other collaborator fails
EachOwnWorld == [i \in Inv |-> i]
EquivOptions(i) ==
  [NoOptions EXCEPT !.concurrency = IF i % 2 = 1 THEN 1 ELSE 5]
InitEquiv ==
  InitWith({2 * TicksPerDay}, EachOwnWorld, {MsgIds}, {AllPlain, Mixed},
           [MsgIds -> StubOutcomes], MaxFaults, {"down"})
Pair == {1, 2}
\* the runs are made one after the other
InTurn(i) == \A j \in Pair : j < i => inv[j].pc = "done"
InvokeInTurn(i) == InTurn(i) /\ Invoke(i, EquivOptions(i))
NextEquiv ==
  \E i \in Pair :
     \/ InvokeInTurn(i)
     \/ Pipeline(i)
     \/ Concurrent(i)
SpecEquiv == InitEquiv /\ [][NextEquiv]_vars

First == {1}

\* SpecParse: parseAnalysisResult called on every raw value up to MaxRawLen
\* tokens, and on values that are not texts
Tokens == {"{", "}", " ", "x", "J"}
Texts == UNION {[1..n -> Tokens] : n \in 0..MaxRawLen}
MemberNames ==
  {"isClaim", "confidence", "category", "severity", "reason", "keywords",
   "summary"}
MemberValues ==
  {Undef, JNull, JObj, JBool(TRUE), JBool(FALSE), JNum(0), JNum(-5), JNum(42),
   JNum(150), JStr(""), JStr("85"), JStr("abc"), JStr("high"),
   JStr("communication"), JArr(<<>>), JArr(<<"85">>)}
GoodMembers ==
  [isClaim |-> JBool(TRUE), confidence |-> JNum(42),
   category |-> JStr("communication"), severity |-> JStr("high"),
   reason |-> JStr("abc"), keywords |-> JArr(<<"85">>), summary |-> JStr("abc")]
Members ==
  {NoMembers, GoodMembers, ClaimMembers}
    \cup {[GoodMembers EXCEPT ![f] = v] : f \in MemberNames, v \in MemberValues}
\* the members of a text matter only when its brace span parses
HasMembers(toks) ==
  /\ JsonMatch(toks) # <<>>
  /\ SpanParses(JsonMatch(toks))
  /\ SelectSeq(JsonMatch(toks), LAMBDA c : c = "J") # <<>>
RawInputs ==
  {NullRaw, ObjectRaw, NumberRaw(0), NumberRaw(42), BooleanRaw(FALSE),
   BooleanRaw(TRUE)}
    \cup {TextRaw(t, NoMembers) : t \in {x \in Texts : ~HasMembers(x)}}
    \cup {TextRaw(t, m) : t \in {x \in Texts : HasMembers(x)}, m \in Members}

InitParse == InitCall({Calling("parseAnalysisResult", raw) : raw \in RawInputs})
ParseAnalysisResult ==
  /\ call.fn = "parseAnalysisResult" /\ ~call.done
  /\ call' = [call EXCEPT !.done = TRUE, !.ret = parseAnalysisResult(call.arg)]
  /\ UNCHANGED orchestrators
NextParse == ParseAnalysisResult
SpecParse == InitParse /\ [][NextParse]_vars

\* SpecExclude: shouldExcludeFromClaimDetection called on every sender
\* address up to MaxAddrLen characters, with exclusion lists written in
\* lower case, written in upper case, and absent
AddrChars == {"n", "N", "e", "m", "M", "@"}
Addresses == UNION {[1..n -> AddrChars] : n \in 0..MaxAddrLen}
Subjects == {<<>>, <<"h", "i">>, <<"n", "e", "w", "s">>}
UpperExclusionConfig ==
  [emails |-> << <<"N", "@", "E">> >>,
   domains |-> << <<"M">> >>,
   subjectPatterns |-> <<>>]
ExclusionFiles ==
  {MissingFile, UnreadableFile, InvalidJsonFile, ValidFile(ExclusionConfig),
   ValidFile(UpperExclusionConfig)}
\* an orchestrator as constructed, the file its initialize() will find, and
\* the call that is made on it
InitExclude ==
  InitCall({Calling("shouldExcludeFromClaimDetection",
                    [file |-> f, initialized |-> FALSE, list |-> NullExclusion,
                     senderEmail |-> a, subject |-> s]) :
              f \in ExclusionFiles, a \in Addresses, s \in Subjects})
LoadExclusionList ==
  /\ call.fn = "shouldExcludeFromClaimDetection" /\ ~call.done
  /\ ~call.arg.initialized
  /\ call' = [call EXCEPT !.arg.initialized = TRUE,
                          !.arg.list = loadExclusionList(call.arg.file)]
  /\ UNCHANGED orchestrators
ShouldExcludeFromClaimDetection ==
  /\ call.fn = "shouldExcludeFromClaimDetection" /\ ~call.done
  /\ call' = [call EXCEPT
        !.done = TRUE,
        !.ret = shouldExcludeFromClaimDetection(call.arg.list,
                   call.arg.senderEmail, call.arg.subject)]
  /\ UNCHANGED orchestrators
NextExclude == LoadExclusionList \/ ShouldExcludeFromClaimDetection
SpecExclude == InitExclude /\ [][NextExclude]_vars

\* SpecCursor: two incremental runs, one after the other, on a Store that
\* earlier processes may have left run records in; one call may fail
PriorSuccess == logProcessingRunRows(<<>>, 1, 2, 0, 0, <<>>, 0)
PriorLogs ==
  {<<>>, PriorSuccess,
   logProcessingRunRows(PriorSuccess, 3, 4, 0, 0,
                        <<ErrorMessage("getEmails", 0)>>, 0),
   logProcessingRunRows(<<>>, 3, 4, 0, 0, <<ErrorMessage("getEmails", 0)>>, 0)}
InitCursor ==
  /\ now \in InitClocks
  /\ mailbox = MsgIds
  /\ mail \in {AllPlain, Mixed}
  /\ stub = DefaultStub
  /\ faults = MaxFaults - 1
  /\ server = "down"
  /\ isRunning = [w \in World |-> FALSE]
  /\ concurrentLimit = [w \in World |-> DefaultConcurrentLimit]
  /\ exclusionList = [w \in World |-> LoadedExclusion]
  /\ emails = [w \in World |-> <<>>]
  /\ claims = [w \in World |-> <<>>]
  /\ \E log \in PriorLogs : processing_log = [w \in World |-> log]
  /\ lastID = [w \in World |-> 0]
  /\ inv = [i \in Inv |-> IdleInvocation(OneWorld[i])]
  /\ call = NoCall
InvokeIncrementalInTurn(i) == InTurn(i) /\ Invoke(i, NoOptions)
NextCursor ==
  \E i \in Pair :
     \/ InvokeIncrementalInTurn(i)
     \/ Pipeline(i)
SpecCursor == InitCursor /\ [][NextCursor]_vars

\* SpecArrival: incremental runs made one after the other, every call
\* succeeding, while messages keep arriving: message m is received d ticks
\* before or after the first run starts, and time may pass between the runs
Arriving(mails, d) ==
  [m \in MsgIds |-> [mails[m] EXCEPT !.receivedDateTime = 3 * TicksPerDay - 1 + m - d]]
ArrivalMails == {Arriving(mails, d) : mails \in {AllPlain, Mixed}, d \in 1..MaxMsgs}
LastArrival == 3 * TicksPerDay - 1 + MaxMsgs
InitArrival ==
  InitWith(InitClocks, OneWorld, {MsgIds}, ArrivalMails, {DefaultStub}, MaxFaults,
           {"down"})
\* time passes while no run is under way
Wait ==
  /\ \A i \in Inv : inv[i].pc \in {"idle", "done"}
  /\ now <= LastArrival
  /\ now' = now + 1
  /\ UNCHANGED <<env, faults, server, isRunning, concurrentLimit, emails, claims,
                 processing_log, lastID, inv>>
NextArrival ==
  \/ Wait
  \/ \E i \in Pair :
        \/ InvokeIncrementalInTurn(i)
        \/ Pipeline(i)
SpecArrival == InitArrival /\ [][NextArrival]_vars

\* SpecRetry: a sequential incremental run in which one call may fail, then
\* a run of either mode, incremental or over a date range that covers the
\* whole Mail Source
RetryOptions ==
  {[NoOptions EXCEPT !.days = d, !.concurrency = c] : d \in {0, 2 * MaxMsgs}, c \in {0, 2}}
InitRetry ==
  InitWith(InitClocks, OneWorld, {MsgIds}, {AllPlain, Mixed}, {DefaultStub},
           MaxFaults - 1, {"down"})
InvokeRetryInTurn(i) ==
  /\ InTurn(i)
  /\ \E o \in (IF i = 1 THEN {NoOptions} ELSE RetryOptions) : Invoke(i, o)
NextRetry ==
  \E i \in Pair :
     \/ InvokeRetryInTurn(i)
     \/ Pipeline(i)
     \/ Concurrent(i)
     \/ ConcChunkDelay(i)
SpecRetry == InitRetry /\ [][NextRetry]_vars

\* SpecShared: a run of any kind (incremental or over a date range, on the
\* default or on the named mailbox), then after some time an incremental run
\* on either mailbox, while messages keep arriving in both; one call may fail
SharedBoxes ==
  [m \in MsgIds |-> [Mixed[m] EXCEPT
                       !.mailbox = IF m % 2 = 1 THEN "shared" ELSE "default"]]
AnyKindOptions ==
  {[NoOptions EXCEPT !.emailAddress = a, !.days = d] :
     a \in {"", "shared"}, d \in {0, 2 * MaxMsgs}}
IncrementalOptions == {[NoOptions EXCEPT !.emailAddress = a] : a \in {"", "shared"}}
InitShared ==
  InitWith(InitClocks, OneWorld, {MsgIds},
           {Arriving(SharedBoxes, d) : d \in 1..MaxMsgs}, {DefaultStub},
           MaxFaults - 1, {"down"})
InvokeSharedInTurn(i) ==
  /\ InTurn(i)
  /\ \E o \in (IF i = 1 THEN AnyKindOptions ELSE IncrementalOptions) : Invoke(i, o)
NextShared ==
  \/ Wait
  \/ \E i \in Pair :
        \/ InvokeSharedInTurn(i)
        \/ Pipeline(i)
SpecShared == InitShared /\ [][NextShared]_vars

\* SpecLimit: setConcurrentLimit called any number of times with arguments
\* of every kind, and chunkArray called with the limit then in force on
\* every list of up to MaxMsgs elements
LimitArgs ==
  {JNum(0), JNum(-5), JNum(1), JNum(2), JNum(5), JStr("85"), JStr("-5"),
   JStr("2.7"), JStr("abc"), JStr(""), JArr(<<>>), JArr(<<"2.7">>), JBool(TRUE),
   JNull, JObj, Undef}
Lists == UNION {[1..n -> MsgIds] : n \in 0..MaxMsgs}
InitLimit == InitCall({NoCall})
\* parseInt(limit) || 3 sees a NaN and a 0 alike
SetConcurrentLimit(w, limit) ==
  /\ concurrentLimit' =
       [concurrentLimit EXCEPT ![w] = setConcurrentLimit(ParseIntOrZero(limit))]
  /\ call' = [Calling("setConcurrentLimit", limit) EXCEPT !.done = TRUE]
  /\ UNCHANGED <<now, mailbox, mail, stub, exclusionList, faults, server,
                 isRunning, emails, claims, processing_log, lastID, inv>>
\* const chunks = this.chunkArray(emails, this.concurrentLimit)
ChunkArray(w, array) ==
  /\ call' = [Calling("chunkArray", [array |-> array, size |-> concurrentLimit[w]])
                EXCEPT !.done = TRUE,
                       !.ret = chunkArray(array, concurrentLimit[w])]
  /\ UNCHANGED orchestrators
NextLimit ==
  \/ \E limit \in LimitArgs : SetConcurrentLimit(1, limit)
  \/ \E array \in Lists : ChunkArray(1, array)
SpecLimit == InitLimit /\ [][NextLimit]_vars

\* SpecSource: an incremental run, then a run with any combination of the
\* mailbox and date-range options, over a Mail Source with two mailboxes;
\* one call of the whole behaviour may fail
TwoBoxes ==
  [m \in MsgIds |-> [Mixed[m] EXCEPT
                       !.mailbox = IF m % 2 = 0 THEN "shared" ELSE "default"]]
SourceOptions ==
  {[NoOptions EXCEPT !.emailAddress = a, !.days = d, !.hours = h,
                     !.startDate = s, !.endDate = e] :
     a \in {"", "shared"}, d \in {0, 2}, h \in {0, 3 * TicksPerDay},
     s \in {NoTime, 2}, e \in {NoTime, 2}}
InitSource ==
  InitWith(InitClocks, OneWorld, {MsgIds}, {TwoBoxes}, {DefaultStub},
           MaxFaults - 1, {"down"})
InvokeSourceInTurn(i) ==
  /\ InTurn(i)
  /\ \E o \in (IF i = 1 THEN {NoOptions} ELSE SourceOptions) : Invoke(i, o)
NextSource ==
  \E i \in Pair :
     \/ InvokeSourceInTurn(i)
     \/ Pipeline(i)
SpecSource == InitSource /\ [][NextSource]_vars

\* SpecChunks: one hosted run in chunked-concurrent mode, for the limits 2
\* and 3 and every combination of answered and failing completion calls
ChunkOptions == {[NoOptions EXCEPT !.concurrency = c] : c \in {2, 3}}
InitChunks ==
  InitWith(InitClocks, OneWorld, {MsgIds}, {AllPlain, Mixed},
           [MsgIds -> {RawClaim, StubFail}], MaxFaults, {"down"})
NextChunks ==
  \E i \in First :
     \/ \E o \in ChunkOptions : Invoke(i, o)
     \/ GetLastProcessingTime(i) \/ GetEmails(i)
     \/ Concurrent(i)
     \/ ConcChunkDelay(i)
     \/ CountProcessedEmails(i) \/ CountDetectedClaims(i) \/ LogProcessingRun(i)
SpecChunks == InitChunks /\ [][NextChunks]_vars

\* SpecDebug: the same batch and the same completion responses, taken once
\* with debug=true and once with debug=false, each on its own Store
DebugOptions(i) == [NoOptions EXCEPT !.debug = (i % 2 = 1)]
DebugResponses == {RawClaim, RawNumberReason, StubFail}
InitDebug ==
  InitWith({2 * TicksPerDay}, EachOwnWorld, {MsgIds}, {AllPlain, Mixed},
           [MsgIds -> DebugResponses], MaxFaults, {"down"})
InvokeDebugInTurn(i) == InTurn(i) /\ Invoke(i, DebugOptions(i))
NextDebug ==
  \E i \in Pair :
     \/ InvokeDebugInTurn(i)
     \/ Pipeline(i)
SpecDebug == InitDebug /\ [][NextDebug]_vars

\* SpecLocal: one run on the self-hosted backend, for every value of the
\* concurrency option, with the server at localhost down, answering while
\* its model is not loaded, or ready
LocalOptions ==
  {[NoOptions EXCEPT !.useLocalLLM = TRUE, !.concurrency = c] : c \in {0, 1, 2, 5}}
InitLocal ==
  InitWith(InitClocks, OneWorld, {MsgIds}, {Mixed, AllPlain}, {DefaultStub}, 0,
           {"down", "elsewhere", "loading", "ready"})
NextLocal ==
  \/ ServerProgress
  \/ \E i \in First :
        \/ \E o \in LocalOptions : Invoke(i, o)
        \/ BackendStart(i)
        \/ Pipeline(i)
SpecLocal == InitLocal /\ [][NextLocal]_vars

(***************************************************************************)
(* Vocabulary of the properties.                                           *)
(***************************************************************************)
\* the run of invocation i is between `isRunning = true` and its termination
Running(i) == inv[i].entered /\ inv[i].pc # "done"
Terminated(i) == inv[i].entered /\ inv[i].pc = "done"
\* the mode processEmails chooses for the batch
Sequential(i) ==
  inv[i].entered /\ ~(~inv[i].options.useLocalLLM /\ inv[i].options.concurrency > 1)
ChunkedConcurrent(i) == inv[i].entered /\ ~Sequential(i)

RunRecords(i) ==
  {n \in 1..Len(processing_log[W(i)]) : processing_log[W(i)][n].by = i}
MessageRows(i, m) ==
  {n \in 1..Len(emails[W(i)]) :
     emails[W(i)][n].by = i /\ emails[W(i)][n].email_id = m}
ResultRows(i, m) ==
  {n \in 1..Len(claims[W(i)]) :
     claims[W(i)][n].by = i /\ claims[W(i)][n].msg = m}
ResultRowsOf(w, m) == {n \in 1..Len(claims[w]) : claims[w][n].msg = m}

\* the rejection of logProcessingRun inside finally ended the invocation
FinalizerFailed(i) ==
  inv[i].outcome = "raised" /\ inv[i].error = <<ErrorMessage("logProcessingRun", 0)>>

PerMessageOps ==
  {"isEmailProcessed", "getEmailDetails", "saveEmail", "saveClaim", "callAI",
   "analyzeEmailForClaim"}
FatalOps == {"startServer", "getLastProcessingTime", "getEmails"}
FailedAt(i, m) ==
  \E op \in PerMessageOps :
     \/ ErrorMessage(op, m) \in inv[i].caught
     \/ inv[i].thrown = <<ErrorMessage(op, m)>>

IsExcluded(m) ==
  shouldExcludeFromClaimDetection(LoadedExclusion, mail[m].senderEmail,
                                  mail[m].subject)
HasText(m) == ~TrimIsEmpty(extractTextFromEmail(mail[m]))

\* message m went through the whole loop body of the run of invocation i
Handled(i, m) ==
  /\ MessageRows(i, m) # {}
  /\ (IsExcluded(m) \/ HasText(m)) => Cardinality(ResultRows(i, m)) = 1

(***************************************************************************)
(* Properties.                                                             *)
(***************************************************************************)
\* C1: on one orchestrator at most one run is in Running at any time, and
\* an invocation that arrives while a run is Running is refused: it never
\* enters Running and lists no message
C1_SingleFlight ==
  /\ \A i, j \in Inv : (Running(i) /\ Running(j) /\ W(i) = W(j)) => i = j
  /\ \A j \in Inv : inv[j].during # {} => (~inv[j].entered /\ inv[j].emails = <<>>)

\* C2: an invocation that entered Running and has terminated (normal
\* return, early return on an empty batch, exception from source selection
\* or from message processing) has written exactly one ProcessingRun
\* record, and no invocation ever has more than one
C2_OneRunRecord ==
  \A i \in Inv :
     /\ Cardinality(RunRecords(i)) <= 1
     /\ (Terminated(i) /\ ~FinalizerFailed(i)) => Cardinality(RunRecords(i)) = 1

\* C2 witness: a run ended by a message-processing exception has written
\* its single record
C2_Witness ==
  \E i \in Inv :
     /\ Terminated(i) /\ inv[i].outcome = "raised"
     /\ inv[i].error[1][1] \in PerMessageOps
     /\ Cardinality(RunRecords(i)) = 1

\* C3: when an invocation ends with the exception of a failed source
\* selection or of a self-hosted backend that failed to start, a
\* ProcessingRun record of that invocation with status error and that
\* error text has been written
C3_FatalRecorded ==
  \A i \in Inv :
     (inv[i].outcome = "raised" /\ inv[i].error[1][1] \in FatalOps)
        => \E n \in RunRecords(i) :
              /\ processing_log[W(i)][n].status = "error"
              /\ processing_log[W(i)][n].errors = inv[i].error

\* C4: once every run of an orchestrator has terminated, however it
\* terminated, isRunning is false
C4_FlagCleared ==
  \A i \in Inv :
     (Terminated(i) /\ \A j \in Inv : W(j) = W(i) => ~Running(j))
        => ~isRunning[W(i)]

\* C5: in sequential mode no exception raised while handling one message
\* ends the invocation, and once the loop is over every message of the batch
\* that did not itself fail has been skipped as recorded or handled in full
C5_SequentialIsolation ==
  \A i \in Inv :
     Sequential(i) =>
        /\ inv[i].thrown # <<>> => inv[i].thrown[1][1] \notin PerMessageOps
        /\ inv[i].outcome = "raised" => inv[i].error[1][1] \notin PerMessageOps
        /\ (inv[i].emails # <<>> /\ inv[i].pc \in
              {"countProcessedEmails", "countDetectedClaims",
               "logProcessingRun", "done"})
             => \A k \in 1..Len(inv[i].emails) :
                   LET m == inv[i].emails[k]
                   IN \/ m \in inv[i].seenRecorded
                      \/ FailedAt(i, m)
                      \/ Handled(i, m)

\* C5 witness: a sequential run returned normally after an exception at a
\* message that is not the last of its batch, and the message after it was
\* classified
C5_Witness ==
  \E i \in Inv :
     /\ Sequential(i) /\ Terminated(i) /\ inv[i].outcome = "returned"
     /\ \E k \in 1..(Len(inv[i].emails) - 1) :
          /\ FailedAt(i, inv[i].emails[k])
          /\ Handled(i, inv[i].emails[k + 1])
          /\ ResultRows(i, inv[i].emails[k + 1]) # {}

\* C6: a sequential run over a new batch in which only the detail fetch of
\* message #2 fails returns processed = size of the batch minus one, and
\* its ProcessingRun record has status error and an error text that
\* contains that failure's message
C6_PartialFailureRecorded ==
  \A i \in Inv :
     (/\ Sequential(i) /\ Terminated(i) /\ inv[i].outcome = "returned"
      /\ Len(inv[i].emails) >= 2
      /\ inv[i].seenRecorded = {}
      /\ inv[i].caught = {ErrorMessage("getEmailDetails", inv[i].emails[2])})
        => /\ inv[i].retval.emailsProcessed = Len(inv[i].emails) - 1
           /\ \E n \in RunRecords(i) :
                 /\ processing_log[W(i)][n].status = "error"
                 /\ \E e \in 1..Len(processing_log[W(i)][n].errors) :
                       processing_log[W(i)][n].errors[e] =
                          ErrorMessage("getEmailDetails", inv[i].emails[2])

\* C7: a message whose external id was already recorded when the run
\* examined it costs that run no detail fetch and no completion call and
\* gets no Message row and no ClassificationResult from it; the Store never
\* holds two Message rows with one external id
C7_Dedup ==
  /\ \A w \in World : \A a, b \in 1..Len(emails[w]) :
        emails[w][a].email_id = emails[w][b].email_id => a = b
  /\ \A i \in Inv : \A m \in inv[i].seenRecorded :
        /\ m \notin inv[i].detailCalls
        /\ m \notin inv[i].completionCalls
        /\ MessageRows(i, m) = {}
        /\ ResultRows(i, m) = {}

\* C7 witness: a terminated run that met a recorded message
C7_Witness ==
  \E i \in Inv :
     /\ Terminated(i) /\ inv[i].outcome = "returned"
     /\ inv[i].seenRecorded # {}
     /\ \E j \in inv[i].after : \E m \in inv[i].seenRecorded : MessageRows(j, m) # {}

\* C8: no run makes a completion call for a message the exclusion list
\* excludes; every ClassificationResult of such a message has category
\* excluded, severity none, confidence 0 and isClaim false; the message has
\* at most one ClassificationResult, and exactly one once the run that
\* recorded it has terminated without a failure at that message; in
\* sequential and in chunked-concurrent mode alike
C8_ExcludedResult ==
  \A i \in Inv : \A m \in MsgIds :
     IsExcluded(m) =>
        /\ m \notin inv[i].completionCalls
        /\ \A n \in ResultRowsOf(W(i), m) :
              /\ claims[W(i)][n].category = "excluded"
              /\ claims[W(i)][n].severity = "none"
              /\ claims[W(i)][n].confidence = 0
              /\ claims[W(i)][n].is_claim = FALSE
        /\ Cardinality(ResultRowsOf(W(i), m)) <= 1
        /\ (Terminated(i) /\ MessageRows(i, m) # {} /\ ~FailedAt(i, m))
              => Cardinality(ResultRows(i, m)) = 1

\* C8 witness: a chunked-concurrent run has terminated, it recorded an
\* excluded message that has text, and the message has its one result
C8_Witness ==
  \E i \in Inv : \E m \in MsgIds :
     /\ ChunkedConcurrent(i) /\ Terminated(i)
     /\ IsExcluded(m) /\ HasText(m)
     /\ MessageRows(i, m) # {}
     /\ Cardinality(ResultRows(i, m)) = 1
     /\ inv[i].completionCalls # {}

\* invocation j is the run that follows the run of invocation i, both
\* incremental and with the same options
Incremental(o) == ~HasDateRange(o)
SecondOf(i, j) ==
  /\ inv[j].entered
  /\ i \in inv[j].after
  /\ inv[j].after = inv[i].after \cup {i}
  /\ inv[i].options = inv[j].options
  /\ Incremental(inv[i].options)
Succeeded(i) ==
  \E n \in RunRecords(i) : processing_log[W(i)][n].status = "success"
\* the run of invocation j called no completion, wrote no Message row and no
\* ClassificationResult, and if it returned, returned {0, 0}
NoWork(j) ==
  /\ inv[j].completionCalls = {}
  /\ \A m \in MsgIds : MessageRows(j, m) = {} /\ ResultRows(j, m) = {}
  /\ inv[j].outcome = "returned" =>
        inv[j].retval = [emailsProcessed |-> 0, claimsDetected |-> 0]

\* C9 as stated: the second of two incremental runs with no message
\* arriving makes no completion call, writes no Message row and no
\* ClassificationResult, and returns {0, 0}
C9_SecondRunIdle == \A i, j \in Inv : SecondOf(i, j) => NoWork(j)

\* C9 amended: the same, when the first run was recorded with status
\* success
C9_SecondRunIdleAfterSuccess ==
  \A i, j \in Inv : (SecondOf(i, j) /\ Succeeded(i)) => NoWork(j)

\* C9 witness: a first run that classified messages and was recorded with
\* status success, followed by a second run that returned {0, 0}
C9_Witness ==
  \E i, j \in Inv :
     /\ SecondOf(i, j) /\ Succeeded(i)
     /\ \E m \in MsgIds : ResultRows(i, m) # {}
     /\ Terminated(j) /\ inv[j].outcome = "returned"
     /\ inv[j].retval = [emailsProcessed |-> 0, claimsDetected |-> 0]

\* what a ClassificationResult row holds, apart from its own row id
Content(row) ==
  [msg |-> row.msg, email_id |-> row.email_id, is_claim |-> row.is_claim,
   confidence |-> row.confidence, category |-> row.category,
   severity |-> row.severity, reason |-> row.reason,
   keywords |-> row.keywords, summary |-> row.summary,
   raw_response |-> row.raw_response]
\* the multiset of ClassificationResults persisted in Store w
ResultBag(w) ==
  LET S == {Content(claims[w][n]) : n \in 1..Len(claims[w])}
  IN [c \in S |->
        Cardinality({n \in 1..Len(claims[w]) : Content(claims[w][n]) = c})]
\* runs i and j took the same batch, i with concurrency=1 and j with
\* concurrency=5, each on its own Store, and both returned
SameBatchBothWays(i, j) ==
  /\ Terminated(i) /\ inv[i].outcome = "returned"
  /\ Terminated(j) /\ inv[j].outcome = "returned"
  /\ W(i) # W(j)
  /\ inv[i].emails = inv[j].emails
  /\ inv[i].options.concurrency = 1 /\ inv[j].options.concurrency = 5
AllCallsAnswered(i) == \A m \in inv[i].completionCalls : stub[m] # StubFail

Parsed == call.fn = "parseAnalysisResult" /\ call.done

\* C11: parseAnalysisResult never raises: whatever value it is given, a
\* text or not, it returns a result
C11_NeverRaises == Parsed => ~Threw(call.ret)

\* the argument of the call takes one of the failure paths: it is falsy or
\* blank, has no brace span, or its brace span is not valid JSON
FailurePath(raw) ==
  \/ ~RawTruthy(raw)
  \/ /\ raw.type = "string"
     /\ \/ \A k \in 1..Len(raw.toks) : raw.toks[k] = " "
        \/ JsonMatch(raw.toks) = <<>>
        \/ ~SpanParses(JsonMatch(raw.toks))

\* C12: every result parseAnalysisResult returns has isClaim, confidence,
\* category, severity, reason, keywords and summary populated, confidence
\* an integer of 0..100, category one of the six values and severity one of
\* low/medium/high; on every failure path it is the default result with a
\* parseError descriptor
C12_ResultWellFormed ==
  (Parsed /\ ~Threw(call.ret)) =>
     LET r == call.ret
     IN /\ MemberNames \subseteq DOMAIN r
        /\ r.isClaim \in BOOLEAN
        /\ r.confidence \in 0..100
        /\ r.category \in
             {"answer quality", "answer delay", "point less conversation",
              "communication", "other", "not_claim"}
        /\ r.severity \in {"low", "medium", "high"}
        /\ r.reason.t \notin {"undef", "null"}
        /\ r.summary.t \notin {"undef", "null"}
        /\ r.keywords \in Seq({"85", "delay"})
        /\ FailurePath(call.arg) =>
              /\ r.isClaim = FALSE /\ r.confidence = 0
              /\ r.category = "other" /\ r.severity = "medium"
              /\ r.keywords = <<>>
              /\ "parseError" \in DOMAIN r

\* C12 witness: a text whose brace span is not valid JSON has been given the
\* default result with its parseError
C12_Witness ==
  /\ Parsed /\ ~Threw(call.ret)
  /\ call.arg.type = "string"
  /\ JsonMatch(call.arg.toks) # <<>> /\ ~SpanParses(JsonMatch(call.arg.toks))
  /\ call.ret.parseError = "JSON parse failed"
  /\ call.ret.confidence = 0

\* the direct call was given a text whose brace span parsed
ParsedSpan ==
  /\ Parsed /\ ~Threw(call.ret) /\ call.arg.type = "string"
  /\ ~FailurePath(call.arg)
\* the members of the parsed object
ParsedMembers ==
  IF SelectSeq(call.arg.toks, LAMBDA c : c = "J") = <<>>
  THEN NoMembers ELSE call.arg.members

\* C13: on a parsed span, isClaim is the truthiness of the parsed value;
\* confidence is the parsed integer, 0 when it does not parse, clamped to
\* 0..100; a category outside the enumeration becomes "other"; a severity
\* outside low/medium/high becomes "medium"; keywords that are not a
\* sequence become empty; text outside the brace span changes nothing
C13_Coercion ==
  ParsedSpan =>
     LET m == ParsedMembers
         r == call.ret
     IN /\ r.isClaim =
             (m.isClaim \in {JBool(TRUE), JNum(-5), JNum(42), JNum(150),
                             JStr("85"), JStr("abc"), JStr("high"),
                             JStr("communication"), JStr("bogus"), JObj,
                             JArr(<<>>), JArr(<<"85">>)})
        /\ r.confidence =
             CASE m.confidence \in {JNum(150)} -> 100
               [] m.confidence \in {JNum(42)} -> 42
               [] m.confidence \in {JStr("85"), JArr(<<"85">>)} -> 85
               [] OTHER -> 0
        /\ r.category =
             IF m.category = JStr("communication") THEN "communication" ELSE "other"
        /\ r.severity = IF m.severity = JStr("high") THEN "high" ELSE "medium"
        /\ r.keywords =
             IF m.keywords.t = "arr" THEN m.keywords.v ELSE <<>>
        /\ r = [parseAnalysisResult(TextRaw(JsonMatch(call.arg.toks),
                                            call.arg.members))
                  EXCEPT !.rawResponse = call.arg]

\* C13 witness: a text with a character before the brace span, whose object
\* has isClaim true, confidence 150, an unknown category and an unknown
\* severity, was given confidence 100, category other and severity medium
C13_Witness ==
  /\ ParsedSpan
  /\ call.arg.toks = <<"x", "{", "J", "}">>
  /\ call.arg.members = ClaimMembers
  /\ call.ret.isClaim /\ call.ret.confidence = 100
  /\ call.ret.category = "other" /\ call.ret.severity = "medium"

\* the direct call of shouldExcludeFromClaimDetection is over
ExclusionDecided == call.fn = "shouldExcludeFromClaimDetection" /\ call.done
\* two texts are equal when letter case is ignored
SameIgnoringCase(a, b) == ToLowerCase(a) = ToLowerCase(b)
\* the configured domain set of the call
ConfiguredDomains ==
  IF call.arg.list.loaded
  THEN {call.arg.list.excludeFromClaimDetection.domains[k] :
          k \in 1..Len(call.arg.list.excludeFromClaimDetection.domains)}
  ELSE {}
\* the sender address has one '@' and text after it
DomainOf(a) ==
  IF Cardinality(AtPositions(a)) = 1
  THEN SubSeq(a, MinOf(AtPositions(a)) + 1, Len(a)) ELSE <<>>

\* C14: whenever the part of the sender address after '@' equals, ignoring
\* letter case, a member of the configured domain set, the call returns
\* true, whatever the subject
C14_DomainExcluded ==
  (/\ ExclusionDecided
   /\ DomainOf(call.arg.senderEmail) # <<>>
   /\ \E d \in ConfiguredDomains :
         SameIgnoringCase(DomainOf(call.arg.senderEmail), d))
     => call.ret = TRUE

\* the health probe reports status ok and model_loaded true
ModelLoaded == server = "ready"

Outstanding(i) ==
  IF inv[i].pc = "seq_analyze" THEN 1
  ELSE IF inv[i].pc = "conc_analyze" THEN Cardinality(inv[i].inflight)
  ELSE 0
\* invocation i is on the path of processConcurrently
OnChunkedPath(i) ==
  inv[i].pc \in {"conc_isEmailProcessed", "conc_getEmailDetails", "conc_saveEmail",
                 "conc_saveExcluded", "conc_analyze", "conc_chunkDelay",
                 "conc_saveClaim"}

\* C16: with the self-hosted backend selected, whatever the concurrency
\* option, the hosted service's limit keeps its value, the run is never on
\* the chunked path and has at most one completion call outstanding
C16_ConcurrencyIgnored ==
  \A i \in Inv :
     inv[i].options.useLocalLLM =>
        /\ concurrentLimit[W(i)] = DefaultConcurrentLimit
        /\ ~OnChunkedPath(i)
        /\ inv[i].chunks = <<>> /\ inv[i].inflight = {}
        /\ Outstanding(i) <= 1
C16_Witness ==
  \E i \in Inv :
     /\ inv[i].options.useLocalLLM /\ inv[i].options.concurrency > 1
     /\ inv[i].pc = "seq_analyze" /\ inv[i].k > 1

\* invocation i is on the path of processSequentially
OnSequentialPath(i) ==
  inv[i].pc \in {"seq_isEmailProcessed", "seq_getEmailDetails", "seq_saveEmail",
                 "seq_saveExcluded", "seq_analyze", "seq_saveClaim", "seq_delay"}

\* C17: a run on the hosted backend without a concurrency option analyses
\* its batch in chunks of up to DefaultConcurrentLimit concurrent completion
\* calls: it is never on the one-message-at-a-time path, and a chunk it
\* issues holds min(DefaultConcurrentLimit, remaining) calls
C17_DefaultChunks ==
  \A i \in Inv :
     (inv[i].entered /\ ~inv[i].options.useLocalLLM /\ inv[i].options.concurrency = 0) =>
        /\ ~OnSequentialPath(i)
        /\ inv[i].pc = "conc_analyze" => Len(inv[i].chunks[1]) <= DefaultConcurrentLimit

\* what a Store holds, without what depends on the clock reading of the run
\* (the rows' timestamps and the two counts of a run record, which are read
\* back by timestamp) and without the history field `by`
StoreState(w) ==
  [emails |-> [n \in 1..Len(emails[w]) |-> emails[w][n].email_id],
   claims |-> [n \in 1..Len(claims[w]) |-> Content(claims[w][n])],
   processing_log |->
     [n \in 1..Len(processing_log[w]) |->
        [errors |-> processing_log[w][n].errors,
         status |-> processing_log[w][n].status]]]
\* runs i and j took the same batch on empty Stores of their own, i with
\* debug=true and j with debug=false, and both are over
SameBatchDebugAndNot(i, j) ==
  /\ Terminated(i) /\ Terminated(j)
  /\ W(i) # W(j)
  /\ inv[i].emails = inv[j].emails
  /\ inv[i].options.debug /\ ~inv[j].options.debug
  /\ [inv[i].options EXCEPT !.debug = FALSE] = inv[j].options

\* C18: a run with debug=true and a run with debug=false from the same Store
\* state, on the same batch and the same completion responses, make the same
\* mail-source and completion calls, leave the same Store state, and return
\* or raise the same outcome
C18_DebugChangesNothing ==
  \A i, j \in Inv :
     SameBatchDebugAndNot(i, j) =>
        /\ inv[i].detailCalls = inv[j].detailCalls
        /\ inv[i].completionCalls = inv[j].completionCalls
        /\ StoreState(W(i)) = StoreState(W(j))
        /\ inv[i].outcome = inv[j].outcome
        /\ inv[i].thrown = inv[j].thrown

\* the step in which the re-entrancy guard refuses invocation i
RefusedStep(i) ==
  inv[i].pc = "idle" /\ inv'[i].pc = "done" /\ inv'[i].outcome = "refused"

\* C19: the step that refuses an invocation is taken while a run holds
\* isRunning and changes nothing but the invocation's own return: no
\* mail-source, completion or backend-start call, no Message,
\* ClassificationResult or ProcessingRun row, isRunning still set, and the
\* invocation returns without raising
C19_RefusedNoEffect ==
  [][\A i \in Inv :
       RefusedStep(i) =>
          /\ isRunning[W(i)] /\ isRunning'[W(i)]
          /\ UNCHANGED <<now, env, faults, server, isRunning, concurrentLimit,
                         emails, claims, processing_log, lastID>>
          /\ \A j \in Inv \ {i} : inv'[j] = inv[j]
          /\ inv'[i].detailCalls = {} /\ inv'[i].completionCalls = {}
          /\ ~inv'[i].entered
          /\ inv'[i].thrown = <<>> /\ inv'[i].error = <<>>]_vars
C19_Witness ==
  \E i, j \in Inv :
     /\ inv[i].outcome = "refused" /\ inv[i].pc = "done"
     /\ Running(j) /\ W(j) = W(i) /\ isRunning[W(i)]
     /\ Len(emails[W(i)]) > 0

\* the calls that fetch the detail of a message or save it
FetchAndSaveOps == {"getEmailDetails", "saveEmail", "saveClaim"}

\* C20: in chunked-concurrent mode an exception raised while fetching the
\* detail of or saving one message does not end the invocation, and once the
\* batch is over every message that did not itself fail has been skipped as
\* recorded or handled in full
C20_ChunkedIsolation ==
  \A i \in Inv :
     ChunkedConcurrent(i) =>
        /\ inv[i].thrown # <<>> => inv[i].thrown[1][1] \notin FetchAndSaveOps
        /\ inv[i].outcome = "raised" => inv[i].error[1][1] \notin FetchAndSaveOps
        /\ (/\ \E c \in inv[i].caught : c[1] \in FetchAndSaveOps
            /\ inv[i].pc \in {"countProcessedEmails", "countDetectedClaims",
                              "logProcessingRun", "done"})
             => \A k \in 1..Len(inv[i].emails) :
                   LET m == inv[i].emails[k]
                   IN \/ m \in inv[i].seenRecorded
                      \/ FailedAt(i, m)
                      \/ Handled(i, m)

\* analyzeEmailsConcurrently of invocation i has returned
Analysed(i) ==
  inv[i].unprocessedEmails # <<>> /\ inv[i].pc \in
     {"conc_saveClaim", "countProcessedEmails", "countDetectedClaims",
      "logProcessingRun", "done"}
\* the pairs of the returned list computed from the input message at index k
PairsOf(i, k) ==
  {n \in 1..Len(inv[i].analysisResults) :
     inv[i].analysisResults[n].msg = inv[i].unprocessedEmails[k].emailId}

\* C21: once analyzeEmailsConcurrently has returned, whatever calls failed,
\* its list holds as many pairs as the input holds messages, exactly one
\* computed from each input message, and that pair carries the message's
\* identifier (id, or emailId when there is no id)
C21_OnePairPerMessage ==
  \A i \in Inv :
     Analysed(i) =>
        /\ Len(inv[i].analysisResults) = Len(inv[i].unprocessedEmails)
        /\ \A k \in 1..Len(inv[i].unprocessedEmails) :
              /\ Cardinality(PairsOf(i, k)) = 1
              /\ \A n \in PairsOf(i, k) :
                    LET email == inv[i].unprocessedEmails[k]
                    IN inv[i].analysisResults[n].emailId =
                          (IF email.id # 0 THEN email.id ELSE email.emailId)
C21_Witness ==
  \E i \in Inv :
     /\ Analysed(i) /\ Len(inv[i].unprocessedEmails) > concurrentLimit[W(i)]
     /\ \E n, p \in 1..Len(inv[i].analysisResults) :
          /\ "error" \in DOMAIN inv[i].analysisResults[n].result
          /\ "error" \notin DOMAIN inv[i].analysisResults[p].result

\* the external ids of the messages at positions a..b of a list
IdsOf(list, a, b) == {list[n].emailId : n \in {x \in a..b : x <= Len(list)}}

\* C22: with limit k at most k completion calls are outstanding; the calls
\* issued in one step are those of the next k messages of the list in list
\* order, issued when no call of an earlier chunk is outstanding, and, after
\* the first chunk, at the end of the inter-chunk delay
C22_ChunkBarrier ==
  [][\A i \in Inv :
       LET k == concurrentLimit'[W(i)]
           r == inv'[i]
       IN /\ Cardinality(r.inflight) <= k
          /\ r.pc = "conc_analyze" =>
                r.completionCalls =
                   IdsOf(r.unprocessedEmails, 1, r.processedCount + k)
          /\ r.completionCalls # inv[i].completionCalls =>
                /\ inv[i].inflight = {}
                /\ r.completionCalls \ inv[i].completionCalls =
                      IdsOf(r.unprocessedEmails, r.processedCount + 1,
                            r.processedCount + k)
                /\ r.inflight = 1..Cardinality(r.completionCalls \ inv[i].completionCalls)
                /\ r.processedCount > 0 =>
                      (inv[i].pc = "conc_chunkDelay" /\ now' = now + 1)]_vars
C22_Witness ==
  \E i \in Inv :
     /\ inv[i].pc = "conc_analyze" /\ inv[i].processedCount > 0
     /\ inv[i].inflight # {}
     /\ Len(inv[i].analysisResults) = inv[i].processedCount

\* C23: a failing completion call of a chunk does not leave
\* analyzeEmailsConcurrently as an exception: every message of every chunk
\* was submitted, the failed message's result has isClaim=false,
\* confidence=0 and a reason holding the failure's message, and every other
\* message has the result parsed from its own response
C23_SiblingIsolation ==
  \A i \in Inv :
     /\ (ChunkedConcurrent(i) /\ inv[i].thrown # <<>>) =>
           inv[i].thrown[1][1] \notin {"callAI", "analyzeEmailForClaim"}
     /\ Analysed(i) =>
          /\ inv[i].completionCalls =
                IdsOf(inv[i].unprocessedEmails, 1, Len(inv[i].unprocessedEmails))
          /\ \A n \in 1..Len(inv[i].analysisResults) :
                LET a == inv[i].analysisResults[n]
                IN IF stub[a.msg] = StubFail
                   THEN /\ a.result.isClaim = FALSE
                        /\ a.result.confidence = 0
                        /\ "of" \in DOMAIN a.result.reason
                        /\ a.result.reason.of = ErrorMessage("callAI", a.msg)
                   ELSE a.result = parseAnalysisResult(stub[a.msg])
C23_Witness ==
  \E i \in Inv :
     /\ Analysed(i) /\ Len(inv[i].analysisResults) >= 3
     /\ concurrentLimit[W(i)] = 2
     /\ stub[inv[i].analysisResults[1].msg] = StubFail
     /\ inv[i].analysisResults[2].result.isClaim
     /\ inv[i].analysisResults[3].result.isClaim

\* the configured exact-address set of the call
ConfiguredEmails ==
  IF call.arg.list.loaded
  THEN {call.arg.list.excludeFromClaimDetection.emails[k] :
          k \in 1..Len(call.arg.list.excludeFromClaimDetection.emails)}
  ELSE {}

\* C24: whenever the sender address equals, ignoring letter case, an entry
\* of the configured exact-address set, the call returns true, whatever the
\* letter case of the address and of the entry
C24_AddressExcluded ==
  (/\ ExclusionDecided
   /\ \E e \in ConfiguredEmails : SameIgnoringCase(call.arg.senderEmail, e))
     => call.ret = TRUE

\* the exclusion list without its malformed subject patterns
WellFormedOnly(list) ==
  [list EXCEPT !.excludeFromClaimDetection.subjectPatterns =
                  SelectSeq(@, LAMBDA p : p.valid)]
\* no address or domain entry of the list decides the call
OnlySubjectDecides ==
  /\ \A e \in ConfiguredEmails : ToLowerCase(call.arg.senderEmail) # e
  /\ \A d \in ConfiguredDomains : ToLowerCase(SplitAt1(call.arg.senderEmail)) # d

\* C25: the call returns a truth value, not an exception, and it is the one
\* the same call returns with the malformed subject patterns removed from
\* the list; a well-formed pattern that stands after a malformed one still
\* excludes a subject it matches
C25_MalformedSkipped ==
  ExclusionDecided =>
     /\ call.ret \in BOOLEAN
     /\ call.ret = (\/ ~OnlySubjectDecides /\ call.arg.list.loaded
                    \/ /\ call.arg.list.loaded
                       /\ \E k \in 1..Len(WellFormedOnly(call.arg.list).excludeFromClaimDetection.subjectPatterns) :
                             ContainsCI(call.arg.subject,
                                WellFormedOnly(call.arg.list).excludeFromClaimDetection.subjectPatterns[k].lit))
C25_Witness ==
  /\ ExclusionDecided /\ call.ret = TRUE /\ OnlySubjectDecides
  /\ \E j, k \in 1..Len(call.arg.list.excludeFromClaimDetection.subjectPatterns) :
        /\ j < k
        /\ ~call.arg.list.excludeFromClaimDetection.subjectPatterns[j].valid
        /\ call.arg.list.excludeFromClaimDetection.subjectPatterns[k].valid

\* the configuration failed to load, or was never loaded, before the call
FailedToLoad ==
  \/ ~call.arg.initialized
  \/ call.arg.file.state \in {"missing", "unreadable", "invalid json"}

\* C26: after a load that found the configuration missing, unreadable or
\* not valid JSON, and on an orchestrator that never loaded it, the call
\* returns false for every sender and every subject
C26_FailOpen ==
  (ExclusionDecided /\ FailedToLoad) => call.ret = FALSE
C26_Witness ==
  /\ ExclusionDecided /\ call.arg.initialized
  /\ call.arg.file.state = "invalid json"
  /\ call.arg.senderEmail = <<"n", "@", "e">>
  /\ call.arg.subject = <<"n", "e", "w", "s">>
  /\ call.ret = FALSE

\* source selection of invocation i is over: its listing call has returned
\* or raised, or the read of the cursor raised
Selected(i) ==
  inv[i].entered /\ inv[i].pc \notin {"getLastProcessingTime", "getEmails"}
CursorReadFailed(i) ==
  inv[i].thrown = <<ErrorMessage("getLastProcessingTime", 0)>>
\* what the one listing call of a run must be, from the options alone
ExpectedListing(i) ==
  LET o == inv[i].options
  IN /\ Len(inv[i].listingCalls) = 1
     /\ inv[i].listingCalls[1].mailbox =
           (IF o.emailAddress # "" THEN o.emailAddress ELSE "default")
     /\ IF o.days # 0 \/ o.hours # 0 \/ o.startDate # NoTime \/ o.endDate # NoTime
        THEN /\ inv[i].listingCalls[1].dateRange.present
             /\ inv[i].listingCalls[1].lastCheckDate = NoTime
             /\ inv[i].cursorReads = 0
        ELSE /\ ~inv[i].listingCalls[1].dateRange.present
             /\ inv[i].cursorReads = 1
             /\ inv[i].listingCalls[1].lastCheckDate =
                   getLastProcessingTime(
                      SubSeq(processing_log[W(i)], 1, Cardinality(inv[i].after)))

\* C27 as stated: every run whose source selection is over has issued
\* exactly one listing call: by date range, without reading or applying the
\* cursor, when a date-range option is present, from the cursor otherwise,
\* and to the mailbox of the mailbox option when there is one
C27_OneListing ==
  \A i \in Inv : Selected(i) => ExpectedListing(i)

\* C27 amended: the same, for the runs whose read of the cursor did not
\* raise; a run whose read of the cursor raised has issued no listing call
C27_OneListingUnlessCursorFails ==
  \A i \in Inv :
     Selected(i) =>
        IF CursorReadFailed(i)
        THEN inv[i].listingCalls = <<>> /\ inv[i].cursorReads = 1
        ELSE ExpectedListing(i)
C27_Witness ==
  \E i, j \in Inv :
     /\ Terminated(i) /\ Succeeded(i) /\ i \in inv[j].after
     /\ Selected(j) /\ inv[j].options.emailAddress = "shared"
     /\ inv[j].options.hours # 0 /\ inv[j].options.days = 0
     /\ inv[j].options.startDate = NoTime
     /\ Len(inv[j].emails) > 0 /\ inv[j].cursorReads = 0

\* invocation j has read the cursor
CursorRead(j) ==
  inv[j].entered /\ inv[j].cursorReads = 1 /\ ~CursorReadFailed(j)
    /\ inv[j].pc # "getLastProcessingTime"
\* the run records that were in the Store when invocation j started: those
\* of earlier processes and of the invocations that were over
RecordsBefore(j) ==
  {n \in 1..Len(processing_log[W(j)]) :
     processing_log[W(j)][n].by \in inv[j].after \cup {0}}
SuccessBefore(j) ==
  {n \in RecordsBefore(j) : processing_log[W(j)][n].status = "success"}
RecordedAsError(i) ==
  \E n \in RunRecords(i) : processing_log[W(i)][n].status = "error"
\* j is the run made next after run i
NextAfter(i, j) ==
  inv[j].entered /\ i \in inv[j].after /\ inv[j].after = inv[i].after \cup {i}

\* C28: the cursor an incremental run reads is null when no earlier run is
\* recorded with status success, and otherwise the latest completion
\* timestamp among the earlier runs recorded with status success; after a
\* run recorded with status error the next incremental run reads the cursor
\* that run read
C28_Cursor ==
  \A j \in Inv :
     CursorRead(j) =>
        /\ IF SuccessBefore(j) = {}
           THEN inv[j].lastProcessingTime = NoTime
           ELSE \E n \in SuccessBefore(j) :
                   /\ inv[j].lastProcessingTime =
                         processing_log[W(j)][n].run_completed_at
                   /\ \A p \in SuccessBefore(j) :
                         processing_log[W(j)][p].run_completed_at <=
                            processing_log[W(j)][n].run_completed_at
        /\ \A i \in Inv :
              (NextAfter(i, j) /\ CursorRead(i) /\ RecordedAsError(i)) =>
                 /\ inv[j].lastProcessingTime = inv[i].lastProcessingTime
                 /\ Len(inv[j].listingCalls) >= 1 =>
                       inv[j].listingCalls[1].lastCheckDate =
                          inv[i].listingCalls[1].lastCheckDate
C28_Witness ==
  \E i, j \in Inv :
     /\ NextAfter(i, j) /\ CursorRead(i) /\ RecordedAsError(i)
     /\ CursorRead(j) /\ inv[j].lastProcessingTime = 2
     /\ Len(processing_log[W(j)]) >= 3
     /\ Len(inv[j].emails) > 0

(***************************************************************************)
(* The readiness poll of the self-hosted backend (SpecLocal).              *)
(***************************************************************************)
\* a turn of the polling loop of invocation i: its probe reads the server of
\* the unprimed state
PollTurn(i) == inv[i].pc = "waitForServer" /\ inv'[i] # inv[i]
Probes(i) == inv[i].retries + 1
PollFailed(r) ==
  /\ r.pc = "done"
  /\ r.outcome = "raised"
  /\ r.error = <<ErrorMessage("startServer", 0)>>

\* C29: the readiness poll terminates.  Every turn of waitForServer is one of
\* at most maxRetries probes; a probe that reports status ok with the model
\* loaded ends the poll at once and the run starts; any other probe is
\* followed by the next turn, except the maxRetries-th, after which the poll
\* raises, startServer returns false and processEmails throws without
\* having started a run.
C29_PollTerminates ==
  [][\A i \in First :
       PollTurn(i) =>
         /\ Probes(i) <= maxRetries
         /\ HealthReady(server) =>
               /\ inv'[i].pc \notin {"waitForServer", "done"}
               /\ isRunning'[W(i)]
         /\ ~HealthReady(server) /\ Probes(i) < maxRetries =>
               /\ inv'[i].pc = "waitForServer"
               /\ Probes(i)' = Probes(i) + 1
         /\ ~HealthReady(server) /\ Probes(i) = maxRetries =>
               /\ PollFailed(inv'[i])
               /\ ~isRunning'[W(i)]
               /\ processing_log' = processing_log]_vars
\* the poll has given up after its maxRetries-th probe
C29_Witness ==
  \E i \in First : PollFailed(inv[i]) /\ Probes(i) = maxRetries
\* a poll that has made failed probes is about to see the server ready
C29_ReadyMidPoll ==
  \E i \in First :
     inv[i].pc = "waitForServer" /\ Probes(i) > 1 /\ HealthReady(server)

(***************************************************************************)
(* Messages without text.                                                  *)
(***************************************************************************)
EmptyText(m) == ~IsExcluded(m) /\ ~HasText(m)
\* the run of invocation i found m unrecorded and went through its handling
\* of m without a failure
WentThrough(i, m) ==
  Terminated(i) /\ m \in inv[i].detailCalls /\ ~FailedAt(i, m)

\* the rows of claims whose email_id is the id of the emails row of m
ResultsKeyedTo(w, m) ==
  {n \in 1..Len(claims[w]) :
     \E k \in 1..Len(emails[w]) :
        emails[w][k].email_id = m /\ claims[w][n].email_id = emails[w][k].id}

\* C30: a message that is not excluded and whose extracted text is empty is
\* never given to the completion service and never has a ClassificationResult
\* in the Store, and the run that handles it saves its Message row; this
\* holds for sequential and for chunked-concurrent runs alike.
C30_EmptyTextNoResult ==
  \A i \in Inv : \A m \in MsgIds :
     EmptyText(m) =>
        /\ m \notin inv[i].completionCalls
        /\ ResultRowsOf(W(i), m) = {}
        /\ ResultsKeyedTo(W(i), m) = {}
        /\ WentThrough(i, m) => MessageRows(i, m) # {}
\* a chunked-concurrent run that analysed other messages has saved the row
\* of a message without text
C30_Witness ==
  \E i \in Inv : \E m \in MsgIds :
     /\ ChunkedConcurrent(i) /\ EmptyText(m) /\ WentThrough(i, m)
     /\ MessageRows(i, m) # {}
     /\ inv[i].completionCalls # {}
\* the same in a sequential run
C30_WitnessSequential ==
  \E i \in Inv : \E m \in MsgIds :
     /\ Sequential(i) /\ EmptyText(m) /\ WentThrough(i, m)
     /\ MessageRows(i, m) # {}
     /\ inv[i].completionCalls # {}

(***************************************************************************)
(* The key of a ClassificationResult.                                      *)
(***************************************************************************)
\* the internal ids of the emails rows whose external id is m
InternalIds(w, m) ==
  {emails[w][k].id : k \in {k \in 1..Len(emails[w]) : emails[w][k].email_id = m}}

\* C31: the email_id of every row of claims is the internal id of the emails
\* row of the message the result was computed from, whatever saveEmail
\* returned (also on an ignored duplicate insert) and whichever mode
\* persisted the result.
C31_KeyedToMessageRow ==
  \A w \in World : \A n \in 1..Len(claims[w]) :
     claims[w][n].email_id \in InternalIds(w, claims[w][n].msg)

\* the rows of claims that reference the emails row with internal id k
ResultsOfRow(w, k) == {n \in 1..Len(claims[w]) : claims[w][n].email_id = k}

\* C32: whatever invocations were made and however they interleaved, every
\* emails row is referenced by at most one row of claims, and no message has
\* had more than one result computed and stored for it.
C32_AtMostOneResult ==
  \A w \in World :
     /\ \A k \in 1..Len(emails[w]) : Cardinality(ResultsOfRow(w, k)) <= 1
     /\ \A m \in MsgIds : Cardinality(ResultRowsOf(w, m)) <= 1

(***************************************************************************)
(* Order of the sequential loop.                                           *)
(***************************************************************************)
\* the message at position j of the batch of invocation i is over: skipped
\* as recorded, failed and caught, or gone through with its result stored
Over(i, j) ==
  LET m == inv[i].emails[j]
  IN m \in inv[i].seenRecorded \/ FailedAt(i, m) \/ Handled(i, m)
\* the step issues the completion call of invocation i
IssuesCall(i) == inv[i].pc # "seq_analyze" /\ inv'[i].pc = "seq_analyze"
\* the step ends the current iteration of the loop of invocation i
LeavesMessage(i) ==
  /\ OnSequentialPath(i)
  /\ inv'[i].k = inv[i].k + 1 \/ inv'[i].pc = "countProcessedEmails"

\* C33: a sequential run handles its batch in order and one message at a
\* time.  The position only moves to the next message; a completion call is
\* issued for the message at the current position when every earlier
\* message is over (recorded before, failed and caught, or its result
\* stored); no more than one call is outstanding; and an iteration ends
\* either by the fixed delay, by the catch of its failure, or by the skip of
\* a recorded message.
C33_StrictOrder ==
  [][\A i \in Inv :
       (Sequential(i) /\ OnSequentialPath(i)) =>
          /\ inv'[i].k \in {inv[i].k, inv[i].k + 1}
          /\ inv'[i].emails = inv[i].emails
          /\ Outstanding(i)' <= 1 /\ inv'[i].inflight = {}
          /\ IssuesCall(i) =>
                /\ inv'[i].completionCalls = inv[i].completionCalls \cup {Cur(inv[i])}
                /\ inv'[i].k = inv[i].k
                /\ \A j \in 1..(inv[i].k - 1) : Over(i, j)
          /\ inv'[i].completionCalls # inv[i].completionCalls => IssuesCall(i)
          /\ LeavesMessage(i) =>
                \/ inv[i].pc = "seq_delay" /\ now' = now + 1
                \/ inv'[i].caught # inv[i].caught
                \/ /\ inv[i].pc = "seq_isEmailProcessed"
                   /\ Cur(inv[i]) \in inv'[i].seenRecorded]_vars
\* a sequential run has its second completion call outstanding after the
\* result of the first was stored and the delay was taken
C33_Witness ==
  \E i \in Inv :
     /\ Sequential(i) /\ inv[i].pc = "seq_analyze" /\ inv[i].k > 1
     /\ inv[i].emails[inv[i].k - 1] \in inv[i].completionCalls
     /\ ResultRows(i, inv[i].emails[inv[i].k - 1]) # {}

(***************************************************************************)
(* Messages that arrive while a run is under way (SpecArrival).            *)
(***************************************************************************)
\* the run of invocation i was recorded with status success
RecordedSuccess(i) ==
  /\ Terminated(i) /\ inv[i].outcome = "returned"
  /\ \A n \in RunRecords(i) : processing_log[W(i)][n].status = "success"
\* no clock tick separates the entry of a run from its listing call, so the
\* listing is made at startTime; endTime is the recorded completion
ArrivedDuring(i, m) ==
  /\ inv[i].startTime < mail[m].receivedDateTime
  /\ mail[m].receivedDateTime < inv[i].endTime
Recorded(w, m) == HasEmailId(emails[w], m)

\* C34: with every run succeeding, a message received after the listing call
\* of a run and before that run's recorded completion is recorded in
\* the Store once the later incremental runs have been made.
C34_NoMessageSkipped ==
  \A i \in Pair : \A m \in mailbox :
     (/\ RecordedSuccess(i) /\ ArrivedDuring(i, m)
      /\ \E j \in Pair : j > i
      /\ \A j \in Pair : j > i => RecordedSuccess(j))
        => Recorded(W(i), m)
\* messages received after the completion of a run are not lost
C34_ArrivedLaterRecorded ==
  \A i \in Pair : \A m \in mailbox :
     (/\ RecordedSuccess(i)
      /\ \E j \in Pair : /\ j > i /\ RecordedSuccess(j)
                          /\ inv[i].endTime < mail[m].receivedDateTime
                          /\ mail[m].receivedDateTime <= inv[j].startTime)
        => Recorded(W(i), m)

(***************************************************************************)
(* A message whose analysis failed (SpecRetry).                            *)
(***************************************************************************)
AnalysisOps == {"callAI", "analyzeEmailForClaim", "saveClaim"}
\* the sequential run of invocation i saved the row of m and then failed at
\* the completion call or at saveClaim
FailedAfterSave(i, m) ==
  /\ Sequential(i) /\ MessageRows(i, m) # {}
  /\ \E op \in AnalysisOps : ErrorMessage(op, m) \in inv[i].caught
\* invocation j was made after the run of invocation i
After(i, j) == j > i /\ inv[j].entered

\* C35: once the row of a message was saved by a sequential run that then
\* failed at the completion call or at saveClaim, no later run fetches the
\* message, gives it to the completion service or stores a result for it:
\* a later run that lists it skips it as recorded.
C35_NeverAnalysedAgain ==
  \A i \in Pair : \A j \in Pair : \A m \in MsgIds :
     (FailedAfterSave(i, m) /\ After(i, j)) =>
        /\ m \notin inv[j].detailCalls
        /\ m \notin inv[j].completionCalls
        /\ ResultRowsOf(W(i), m) = {}
        /\ ResultsKeyedTo(W(i), m) = {}
        /\ (Terminated(j) /\ \E k \in 1..Len(inv[j].emails) : inv[j].emails[k] = m)
              => m \in inv[j].seenRecorded
\* a later run has listed the message again and skipped it as recorded
C35_Witness ==
  \E i \in Pair : \E j \in Pair : \E m \in MsgIds :
     /\ FailedAfterSave(i, m) /\ After(i, j) /\ Terminated(j)
     /\ ErrorMessage("callAI", m) \in inv[i].caught
     /\ m \in inv[j].seenRecorded
     /\ inv[j].completionCalls = {}

(***************************************************************************)
(* The counts of a run.                                                    *)
(***************************************************************************)
\* the rows of emails inserted by the run of invocation i
InsertedBy(i) == {n \in 1..Len(emails[W(i)]) : emails[W(i)][n].by = i}
\* those whose message has a stored result with isClaim = true
ClaimsAmong(i) ==
  {n \in InsertedBy(i) :
     \E c \in ResultRowsOf(W(i), emails[W(i)][n].email_id) : claims[W(i)][c].is_claim}

\* C36: the processed count of a run, in its ProcessingRun record and in the
\* value returned, is the number of emails rows the run inserted, and the
\* claim count is the number of those whose stored result has isClaim =
\* true, also when the run ended with a fatal error.
C36_CountsExact ==
  \A i \in Inv :
     Terminated(i) =>
        /\ \A n \in RunRecords(i) :
              /\ processing_log[W(i)][n].emails_processed = Cardinality(InsertedBy(i))
              /\ processing_log[W(i)][n].claims_detected = Cardinality(ClaimsAmong(i))
        /\ inv[i].outcome = "returned" =>
              /\ inv[i].retval.emailsProcessed = Cardinality(InsertedBy(i))
              /\ inv[i].retval.claimsDetected = Cardinality(ClaimsAmong(i))
\* the same for the runs that return, the fatal endings left aside
C36_CountsExactOnReturn ==
  \A i \in Inv :
     (Terminated(i) /\ inv[i].outcome = "returned") =>
        /\ inv[i].retval.emailsProcessed = Cardinality(InsertedBy(i))
        /\ inv[i].retval.claimsDetected = Cardinality(ClaimsAmong(i))

(***************************************************************************)
(* Chunked-concurrent mode: the results are stored after the analysis.     *)
(***************************************************************************)
\* the step stores a result of the run of invocation i for a message that
\* was given to the completion service
StoresAnalysed(i) ==
  /\ Len(claims'[W(i)]) = Len(claims[W(i)]) + 1
  /\ LET row == claims'[W(i)][Len(claims'[W(i)])]
     IN row.by = i /\ row.msg \in inv[i].completionCalls
\* every message to analyse has been dispatched and its call has settled
AnalysisOver(i) ==
  /\ inv[i].chunks = <<>> /\ inv[i].inflight = {}
  /\ Len(inv[i].analysisResults) = Len(inv[i].unprocessedEmails)
  /\ \A k \in 1..Len(inv[i].unprocessedEmails) :
        inv[i].unprocessedEmails[k].emailId \in inv[i].completionCalls
\* saveClaim failed for the analysed message at position p of the results
SaveClaimFailedAt(i, p) ==
  /\ ChunkedConcurrent(i) /\ Terminated(i)
  /\ p \in 1..Len(inv[i].analysisResults)
  /\ inv[i].analysisResults[p].msg \in inv[i].completionCalls
  /\ inv[i].thrown = <<ErrorMessage("saveClaim", inv[i].analysisResults[p].msg)>>
  /\ ResultRows(i, inv[i].analysisResults[p].msg) = {}

\* C37: in chunked-concurrent mode a result of an analysed message is stored
\* only when the completion calls of every chunk have settled; when one
\* saveClaim fails, the messages after it in the batch keep their emails
\* row and have no result stored.
C37_SaveAfterAnalysis ==
  /\ [][\A i \in Inv :
          (ChunkedConcurrent(i) /\ StoresAnalysed(i)) => AnalysisOver(i)]_vars
  /\ [](\A i \in Inv : \A p \in 1..MaxMsgs :
          SaveClaimFailedAt(i, p) =>
             \A q \in (p + 1)..Len(inv[i].analysisResults) :
                /\ ResultRows(i, inv[i].analysisResults[q].msg) = {}
                /\ MessageRows(i, inv[i].analysisResults[q].msg) # {})
\* saveClaim failed in the middle of the results of two chunks: the result
\* before it is stored, the one after it is not
C37_Witness ==
  \E i \in Inv :
     /\ SaveClaimFailedAt(i, 2)
     /\ Len(inv[i].analysisResults) = 3
     /\ ResultRows(i, inv[i].analysisResults[1].msg) # {}
     /\ ResultRows(i, inv[i].analysisResults[3].msg) = {}
     /\ MessageRows(i, inv[i].analysisResults[3].msg) # {}

(***************************************************************************)
(* One cursor for all mailboxes (SpecShared).                              *)
(***************************************************************************)
\* the incremental run of invocation j has issued its listing call
ListedIncrementally(j) ==
  inv[j].entered /\ Incremental(inv[j].options) /\ inv[j].listingCalls # <<>>

\* C38: the cursor is one value for all mailboxes.  After a run of any kind
\* was recorded with status success, a later incremental run, whichever
\* mailbox it names, lists with that run's completion time as its lower
\* bound and gets only messages received after it.
C38_SharedCursor ==
  \A i \in Pair : \A j \in Pair :
     (RecordedSuccess(i) /\ After(i, j) /\ ListedIncrementally(j)) =>
        /\ inv[j].listingCalls[1].lastCheckDate = inv[i].endTime
        /\ \A k \in 1..Len(inv[j].emails) :
              mail[inv[j].emails[k]].receivedDateTime > inv[i].endTime
\* after a date-range run on the default mailbox, an incremental run on the
\* named mailbox has listed a new message and left out an older message of
\* that mailbox which no run has recorded
C38_Witness ==
  \E i \in Pair : \E j \in Pair :
     /\ RecordedSuccess(i) /\ After(i, j) /\ ListedIncrementally(j)
     /\ HasDateRange(inv[i].options) /\ inv[i].options.emailAddress = ""
     /\ inv[j].options.emailAddress = "shared"
     /\ Terminated(j) /\ inv[j].emails # <<>>
     /\ \E m \in mailbox :
          /\ mail[m].mailbox = "shared" /\ ~Recorded(W(j), m)
          /\ mail[m].receivedDateTime <= inv[i].endTime

(***************************************************************************)
(* The concurrency limit and the chunks (SpecLimit).                       *)
(***************************************************************************)
RECURSIVE Concat(_)
Concat(chunks) ==
  IF chunks = <<>> THEN <<>> ELSE Head(chunks) \o Concat(Tail(chunks))
ChunkArrayReturned == call.fn = "chunkArray" /\ call.done

\* C39: whatever arguments setConcurrentLimit was called with, the limit is
\* an integer of at least 1, and chunkArray called with it returns chunks
\* that are non-empty, no longer than the limit, and that put end to end
\* give the list again.
C39_LimitAndChunks ==
  /\ \A w \in World : concurrentLimit[w] \in Nat /\ concurrentLimit[w] >= 1
  /\ ChunkArrayReturned =>
        /\ \A c \in 1..Len(call.ret) :
              /\ call.ret[c] # <<>>
              /\ Len(call.ret[c]) <= call.arg.size
        /\ Concat(call.ret) = call.arg.array
\* after a negative argument the limit is 1 and a list of several elements
\* was split into chunks of one
C39_Witness ==
  /\ ChunkArrayReturned
  /\ call.arg.size = 1 /\ Len(call.arg.array) > 1
  /\ Len(call.ret) = Len(call.arg.array)

====
